---- MODULE Spec2Model ----
\* Verification model of tinygrad/codegen/kernel.py: the Kernel state, the
\* base simplifiers, apply_opt with every opt kind, the tensor-core matcher
\* and copy().  Axis numbers are the 0-based numbers of the Python code;
\* TLA+ sequences are 1-based, so Ix(s, i) reads the Python s[i].
EXTENDS Integers, Sequences, FiniteSets, TLC

VARIABLES cfg, k, k2, heap, copied, driven, ncalls, outputs

vars == <<cfg, k, k2, heap, copied, driven, ncalls, outputs>>

\* ------------------------------------------------------------------ bounds

\* number of state-changing apply_opt/copy calls explored from a fresh kernel
MaxCalls == 2
\* largest axis number an input opt names
MaxAxis == 2
\* largest axis size of the kernels the constructor's simplifiers are tried on
MaxDim == 3
\* how many arguments of a call of apply_tensor_cores are set away from their
\* defaults
MaxArgs == 1

\* ------------------------------------------------------------ Python helpers

Ix(s, i) == s[i + 1]

Min2(a, b) == IF a < b THEN a ELSE b

Max2(a, b) == IF a > b THEN a ELSE b

\* list(range(a, b))
Range(a, b) == [i \in 1..(IF b > a THEN b - a ELSE 0) |-> a + i - 1]

\* s[a:b] with Python's treatment of negative and out-of-range bounds
PySlice(s, a, b) ==
  LET n  == Len(s)
      lo == IF a < 0 THEN Max2(a + n, 0) ELSE Min2(a, n)
      hi == IF b < 0 THEN Max2(b + n, 0) ELSE Min2(b, n)
  IN SubSeq(s, lo + 1, hi)

RECURSIVE prod(_)
prod(s) == IF s = <<>> THEN 1 ELSE Head(s) * prod(Tail(s))

\* sum of a list of booleans
RECURSIVE CountTrue(_)
CountTrue(s) == IF s = <<>> THEN 0 ELSE (IF Head(s) THEN 1 ELSE 0) + CountTrue(Tail(s))

round_up(num, amt) == ((num + amt - 1) \div amt) * amt

\* the value of a stride real_strides() cannot give (Python None)
NoStride == -1

\* Opt.axis is Optional[int]; None is written NoAxis (input opts name no negative axis)
NoAxis == -1

\* --------------------------------------------------------- ShapeTracker facade
\* A tracker is [shape, strides, mask]: the logical shape, the stride of each
\* axis and whether the axis is masked (padded).

st_from_shape(shape) ==
  [shape   |-> shape,
   strides |-> [i \in 1..Len(shape) |->
                  IF shape[i] = 1 THEN 0 ELSE prod(SubSeq(shape, i + 1, Len(shape)))],
   mask    |-> [i \in 1..Len(shape) |-> FALSE]]

st_permute(st, axis) ==
  [shape   |-> [i \in 1..Len(axis) |-> Ix(st.shape, axis[i])],
   strides |-> [i \in 1..Len(axis) |-> Ix(st.strides, axis[i])],
   mask    |-> [i \in 1..Len(axis) |-> Ix(st.mask, axis[i])]]

\* pad(((0,0),)*axis + ((0,ru),) + ...): right-pad one axis by ru
st_pad(st, axis, ru) ==
  [st EXCEPT !.shape[axis + 1] = @ + ru, !.mask[axis + 1] = TRUE]

real_strides(st) ==
  [i \in 1..Len(st.shape) |-> IF st.mask[i] THEN NoStride ELSE st.strides[i]]

\* reshape that splits axis `axis` in two: (outer, inner) sizes are given
st_reshape_split(st, axis, outer, inner) ==
  LET s  == Ix(st.strides, axis)
      m  == Ix(st.mask, axis)
      so == IF outer = 1 THEN 0 ELSE s * inner
      si == IF inner = 1 THEN 0 ELSE s
  IN [shape   |-> PySlice(st.shape, 0, axis) \o <<outer, inner>>
                    \o PySlice(st.shape, axis + 1, Len(st.shape)),
      strides |-> PySlice(st.strides, 0, axis) \o <<so, si>>
                    \o PySlice(st.strides, axis + 1, Len(st.shape)),
      mask    |-> PySlice(st.mask, 0, axis) \o <<m, m>>
                    \o PySlice(st.mask, axis + 1, Len(st.shape))]

\* reshape that keeps the axes whose flag in `keep` is TRUE (drops size-1 axes)
st_reshape_keep(st, keep) ==
  LET idx == SelectSeq(Range(0, Len(st.shape)), LAMBDA i : Ix(keep, i))
  IN st_permute(st, idx)

\* ------------------------------------------------- renderer and AST descriptors
\* A tensor core descriptor: dims = (N, M, K) sizes as _create_tc_opts reads
\* them, opts = its opt program, reduce_axes = get_reduce_axes().

TensorCoreDesc(dims, dtype_in, dtype_out, opts) ==
  [dims |-> dims, dtype_in |-> dtype_in, dtype_out |-> dtype_out, opts |-> opts]

RECURSIVE log2(_)
log2(n) == IF n <= 1 THEN 0 ELSE 1 + log2(n \div 2)

\* TensorCore.get_reduce_axes(): [(i, 2) for i in range(log2(dims[2]))]
get_reduce_axes(tc) == [i \in 1..log2(tc.dims[3]) |-> <<i - 1, 2>>]

\* TensorCore.get_local_axes(): the "l" entries of the opt program
get_local_axes(tc) == SelectSeq(tc.opts, LAMBDA o : o.kind = "l")

TC222 == TensorCoreDesc(<<2, 2, 2>>, "half", "float",
                        <<[kind |-> "u", which |-> 0], [kind |-> "l", which |-> 1]>>)

TC228 == TensorCoreDesc(<<2, 2, 8>>, "half", "float",
                        <<[kind |-> "l", which |-> 0], [kind |-> "u", which |-> 1]>>)

TC2216 == TensorCoreDesc(<<2, 2, 16>>, "half", "float",
                         <<[kind |-> "l", which |-> 0], [kind |-> "u", which |-> 1]>>)

Renderer(has_local, has_shared, shared_max, device, tensor_cores) ==
  [has_local |-> has_local, has_shared |-> has_shared, shared_max |-> shared_max,
   device |-> device, tensor_cores |-> tensor_cores]

\* a node of the op graph below a REDUCE_AXIS: buf is the position of a LOAD
\* in bufs (-1 for a node that is no buffer)
UNode(op, dtype, src, buf) == [op |-> op, dtype |-> dtype, src |-> src, buf |-> buf]

Tracker(shape, strides) ==
  [shape |-> shape, strides |-> strides, mask |-> [i \in 1..Len(shape) |-> FALSE]]

\* out[a0, a1] = sum_k A[a0, k] * B[k, a1], A and B half, accumulated in float
MatmulAst(a0, a1, kk, kind, tcs, use_tc) ==
  [bufs      |-> <<UNode("STORE", "float", <<>>, 0), UNode("LOAD", "half", <<>>, 1),
                   UNode("LOAD", "half", <<>>, 2)>>,
   buf_sts   |-> <<Tracker(<<a0, a1, 1>>, <<a1, 1, 0>>),
                   Tracker(<<a0, a1, kk>>, <<kk, 0, 1>>),
                   Tracker(<<a0, a1, kk>>, <<0, 1, a1>>)>>,
   reduceops |-> <<[kind |-> kind, axis_arg |-> <<2>>, itemsize |-> 4,
                    st |-> st_from_shape(<<a0, a1, 1>>),
                    src_st |-> st_from_shape(<<a0, a1, kk>>),
                    src0 |-> UNode("CAST", "float",
                               <<UNode("MUL", "half",
                                   <<UNode("LOAD", "half", <<>>, 1),
                                     UNode("LOAD", "half", <<>>, 2)>>, -1)>>, -1)]>>,
   earlybufs |-> <<1, 2>>,
   vars      |-> FALSE,
   can_pad   |-> TRUE,
   opts      |-> Renderer(TRUE, TRUE, 64, "GPU", tcs),
   USE_TC    |-> use_tc]

\* out[g] = reduce_r in[g, r]
ReduceAst(g, r, kind, can_pad, has_local, shared_max) ==
  [bufs      |-> <<UNode("STORE", "float", <<>>, 0), UNode("LOAD", "float", <<>>, 1)>>,
   buf_sts   |-> <<Tracker(<<g, 1>>, <<1, 0>>), Tracker(<<g, r>>, <<r, 1>>)>>,
   reduceops |-> <<[kind |-> kind, axis_arg |-> <<1>>, itemsize |-> 4,
                    st |-> st_from_shape(<<g, 1>>),
                    src_st |-> st_from_shape(<<g, r>>),
                    src0 |-> UNode("LOAD", "float", <<>>, 1)]>>,
   earlybufs |-> <<1>>,
   vars      |-> FALSE,
   can_pad   |-> can_pad,
   opts      |-> Renderer(has_local, has_local, shared_max, "GPU", <<>>),
   USE_TC    |-> 0]

\* out[i, j] = in[j, i]: no reduce op
TransposeAst(a0, a1, has_local) ==
  [bufs      |-> <<UNode("STORE", "float", <<>>, 0), UNode("LOAD", "float", <<>>, 1)>>,
   buf_sts   |-> <<Tracker(<<a0, a1>>, <<a1, 1>>), Tracker(<<a0, a1>>, <<1, a0>>)>>,
   reduceops |-> <<>>,
   earlybufs |-> <<>>,
   vars      |-> FALSE,
   can_pad   |-> TRUE,
   opts      |-> Renderer(has_local, FALSE, 0, "CPU", <<>>),
   USE_TC    |-> 0]

\* out[g] = sum_r in[g, r] + max_r in[g, r]: two reduce ops over the same axis
TwoReduceAst(g, r) ==
  [ReduceAst(g, r, "ADD", TRUE, TRUE, 32) EXCEPT
     !.reduceops = @ \o <<[@[1] EXCEPT !.kind = "MAX"]>>,
     !.earlybufs = <<1, 1>>]

\* out[a, b, c] = sum_r in[a, b, c, r] with `in` a permuted view (axes c, b,
\* a, r of the buffer), so that the three kept axes do not merge
BatchReduceAst(shared_max) ==
  [ReduceAst(2, 4, "ADD", TRUE, TRUE, shared_max) EXCEPT
     !.buf_sts = <<Tracker(<<2, 2, 2, 1>>, <<4, 2, 1, 0>>),
                   Tracker(<<2, 2, 2, 4>>, <<4, 8, 16, 1>>)>>,
     !.reduceops = <<[@[1] EXCEPT !.axis_arg = <<3>>,
                                  !.st = st_from_shape(<<2, 2, 2, 1>>),
                                  !.src_st = st_from_shape(<<2, 2, 2, 4>>)]>>]

\* the kernels explored
Asts ==
  << MatmulAst(4, 4, 4, "ADD", <<TC228, TC222>>, 1),
     MatmulAst(2, 3, 2, "ADD", <<TC228, TC222>>, 1),
     ReduceAst(4, 4, "MAX", TRUE, TRUE, 32),
     TransposeAst(4, 2, TRUE),
     MatmulAst(4, 4, 20, "ADD", <<TC2216>>, 1),
     TransposeAst(32, 2, TRUE),
     TwoReduceAst(2, 4),
     BatchReduceAst(8),
     BatchReduceAst(32768) >>

\* --------------------------------------------------------- Kernel properties

output_shape(kk) == kk.sts[1].shape

full_shape(kk) == Ix(kk.sts, kk.full_buf_index).shape

shape_len(kk) == Len(kk.sts[1].shape)

first_upcast(kk) == shape_len(kk) - kk.upcasted

first_reduce(kk) ==
  LET a == PySlice(output_shape(kk), 0, first_upcast(kk)) \o <<0>>
      b == PySlice(full_shape(kk), 0, first_upcast(kk)) \o <<1>>
      n == Min2(Len(a), Len(b))
  IN (CHOOSE i \in 1..n : a[i] # b[i] /\ \A j \in 1..(i - 1) : a[j] = b[j]) - 1

global_dims(kk) == first_reduce(kk) - kk.local_dims

\* ------------------------------------------------------------ base simplifiers

\* reshape_and_permute(None, axis)
reshape_and_permute(sts, axis) == [i \in 1..Len(sts) |-> st_permute(sts[i], axis)]

\* the permutation shift_to builds
shift_to_perm(kk, axis, top, insert_before) ==
  LET ib0       == IF insert_before = NoAxis THEN shape_len(kk) ELSE insert_before
      move_axis == IF top THEN axis ELSE axis + 1
      ib        == IF move_axis < ib0 THEN ib0 + 1 ELSE ib0
  IN SelectSeq(Range(0, ib), LAMBDA i : i # move_axis) \o <<move_axis>>
       \o SelectSeq(Range(ib, shape_len(kk) + 1), LAMBDA i : i # move_axis)

\* shift_to that splits an axis of size 1 like any other, into (1, amount)
shift_to_splits_ones(kk, axis, amount, top, insert_before) ==
  LET perm     == shift_to_perm(kk, axis, top, insert_before)
      x(st)    == Ix(st.shape, axis)
      outer(st) == IF x(st) > 1 THEN (IF top THEN amount ELSE x(st) \div amount) ELSE (IF top THEN amount ELSE 1)
      inner(st) == IF x(st) > 1 THEN (IF top THEN x(st) \div amount ELSE amount) ELSE (IF top THEN 1 ELSE amount)
  IN [sts |-> [i \in 1..Len(kk.sts) |->
                 st_permute(st_reshape_split(kk.sts[i], axis, outer(kk.sts[i]),
                                             inner(kk.sts[i])), perm)],
      err |-> ""]

\* shift_to: [sts, err]; err = "ValueError" when a tracker's axis cannot be
\* split by amount (its reshape has a different size)
shift_to(kk, axis, amount, top, insert_before) ==
  LET perm     == shift_to_perm(kk, axis, top, insert_before)
      x(st)    == Ix(st.shape, axis)
      outer(st) == IF x(st) > 1 THEN (IF top THEN amount ELSE x(st) \div amount) ELSE 1
      inner(st) == IF x(st) > 1 THEN (IF top THEN x(st) \div amount ELSE amount) ELSE 1
      bad      == \E i \in 1..Len(kk.sts) : outer(kk.sts[i]) * inner(kk.sts[i]) # x(kk.sts[i])
  IN IF bad THEN [sts |-> kk.sts, err |-> "ValueError"]
     ELSE [sts |-> [i \in 1..Len(kk.sts) |->
                      st_permute(st_reshape_split(kk.sts[i], axis, outer(kk.sts[i]),
                                                  inner(kk.sts[i])), perm)],
           err |-> ""]

\* upcast() with its check inverted
upcast_inverted(kk) == Ix(full_shape(kk), shape_len(kk) - 1) = 1

\* upcast(): TRUE when its check passes (the caller then increments upcasted)
upcast_ok(kk) == Ix(full_shape(kk), shape_len(kk) - 1) # 1

\* simplify_ones without the adjustment of local_dims
simplify_ones_keeps_locals(kk) ==
  IF shape_len(kk) = 0 THEN [k |-> kk, ret |-> FALSE, err |-> ""]
  ELSE
    LET fs       == full_shape(kk)
        all_ones == [i \in 1..Len(fs) |-> fs[i] = 1]
        k2_ == [kk EXCEPT !.upcasted =
                 @ - CountTrue(PySlice(all_ones, first_upcast(kk), Len(all_ones)))]
        keep == [i \in 1..Len(fs) |-> ~all_ones[i]]
    IN [k |-> [k2_ EXCEPT !.sts =
                 [i \in 1..Len(kk.sts) |-> st_reshape_keep(kk.sts[i], keep)]],
        ret |-> \E i \in 1..Len(fs) : all_ones[i],
        err |-> ""]

\* simplify_ones that adjusts the counters and keeps the axes
simplify_ones_keeps_axes(kk) ==
  IF shape_len(kk) = 0 THEN [k |-> kk, ret |-> FALSE, err |-> ""]
  ELSE
    LET fs       == full_shape(kk)
        all_ones == [i \in 1..Len(fs) |-> fs[i] = 1]
        k1 == [kk EXCEPT !.local_dims =
                 @ - CountTrue(PySlice(all_ones, first_reduce(kk) - kk.local_dims,
                                       first_reduce(kk)))]
        k2_ == [k1 EXCEPT !.upcasted =
                 @ - CountTrue(PySlice(all_ones, first_upcast(k1), Len(all_ones)))]
    IN [k |-> k2_, ret |-> \E i \in 1..Len(fs) : all_ones[i], err |-> ""]

\* simplify_ones that takes every axis before first_reduce for a local one
simplify_ones_counts_globals(kk) ==
  IF shape_len(kk) = 0 THEN [k |-> kk, ret |-> FALSE, err |-> ""]
  ELSE
    LET fs       == full_shape(kk)
        all_ones == [i \in 1..Len(fs) |-> fs[i] = 1]
        k1 == [kk EXCEPT !.local_dims =
                 @ - CountTrue(PySlice(all_ones, 0, first_reduce(kk)))]
        k2_ == [k1 EXCEPT !.upcasted =
                 @ - CountTrue(PySlice(all_ones, first_upcast(k1), Len(all_ones)))]
        keep == [i \in 1..Len(fs) |-> ~all_ones[i]]
        bad  == \E j \in 1..Len(kk.sts) : \E i \in 1..Len(fs) :
                  all_ones[i] /\ kk.sts[j].shape[i] # 1
    IN IF bad THEN [k |-> k2_, ret |-> FALSE, err |-> "ValueError"]
       ELSE [k |-> [k2_ EXCEPT !.sts =
                      [i \in 1..Len(kk.sts) |-> st_reshape_keep(kk.sts[i], keep)]],
             ret |-> \E i \in 1..Len(fs) : all_ones[i],
             err |-> ""]

\* simplify_ones: [k, ret, err]; err = "ValueError" when a tracker has a size
\* other than 1 on an axis the reshape drops
simplify_ones(kk) ==
  IF shape_len(kk) = 0 THEN [k |-> kk, ret |-> FALSE, err |-> ""]
  ELSE
    LET fs       == full_shape(kk)
        all_ones == [i \in 1..Len(fs) |-> fs[i] = 1]
        k1 == [kk EXCEPT !.local_dims =
                 @ - CountTrue(PySlice(all_ones, first_reduce(kk) - kk.local_dims,
                                       first_reduce(kk)))]
        k2_ == [k1 EXCEPT !.upcasted =
                 @ - CountTrue(PySlice(all_ones, first_upcast(k1), Len(all_ones)))]
        keep == [i \in 1..Len(fs) |-> ~all_ones[i]]
        bad  == \E j \in 1..Len(kk.sts) : \E i \in 1..Len(fs) :
                  all_ones[i] /\ kk.sts[j].shape[i] # 1
    IN IF bad THEN [k |-> k2_, ret |-> FALSE, err |-> "ValueError"]
       ELSE [k |-> [k2_ EXCEPT !.sts =
                      [i \in 1..Len(kk.sts) |-> st_reshape_keep(kk.sts[i], keep)]],
             ret |-> \E i \in 1..Len(fs) : all_ones[i],
             err |-> ""]

\* one round of the merge loop that merges where the trackers of full shape
\* can, the reduce boundary included
merge_round_by_full_trackers(kk, rets, i) ==
  LET can_merge(j) ==
        LET si      == Ix(kk.sts[j].shape, i)
            sti     == Ix(real_strides(kk.sts[j]), i)
            last_st == rets[j][Len(rets[j])][2]
        IN sti # NoStride /\ ((sti # 0 /\ last_st = si * sti) \/ (sti = 0 /\ last_st = 0))
      mergeable == \A j \in 1..Len(kk.sts) : kk.sts[j].shape = full_shape(kk) => can_merge(j)
  IN [j \in 1..Len(kk.sts) |->
        LET r == rets[j]
            l == r[Len(r)]
        IN IF mergeable
           THEN [r EXCEPT ![Len(r)] = <<l[1] * Ix(kk.sts[j].shape, i),
                                        Ix(real_strides(kk.sts[j]), i), l[3], i>>]
           ELSE Append(r, <<Ix(kk.sts[j].shape, i), Ix(real_strides(kk.sts[j]), i), i, i>>)]

\* one round of the merge loop of simplify_merge_adjacent for axis i: rets[j]
\* is the list of <<size, real stride, first axis, last axis>> of tracker j
merge_round(kk, rets, i) ==
  LET can_merge(j) ==
        LET si      == Ix(kk.sts[j].shape, i)
            sti     == Ix(real_strides(kk.sts[j]), i)
            last_st == rets[j][Len(rets[j])][2]
        IN sti # NoStride /\ ((sti # 0 /\ last_st = si * sti) \/ (sti = 0 /\ last_st = 0))
      mergeable == (\A j \in 1..Len(kk.sts) : can_merge(j)) /\ i # first_reduce(kk)
  IN [j \in 1..Len(kk.sts) |->
        LET r == rets[j]
            l == r[Len(r)]
        IN IF mergeable
           THEN [r EXCEPT ![Len(r)] = <<l[1] * Ix(kk.sts[j].shape, i),
                                        Ix(real_strides(kk.sts[j]), i), l[3], i>>]
           ELSE Append(r, <<Ix(kk.sts[j].shape, i), Ix(real_strides(kk.sts[j]), i), i, i>>)]

RECURSIVE merge_rounds(_, _, _)
merge_rounds(kk, rets, i) ==
  IF i >= shape_len(kk) THEN rets ELSE merge_rounds(kk, merge_round(kk, rets, i), i + 1)

\* reshape of a tracker to the merged shape: a merged axis has the stride of
\* its last axis and is masked when one of its axes is
st_reshape_merge(st, ret) ==
  [shape   |-> [g \in 1..Len(ret) |-> ret[g][1]],
   strides |-> [g \in 1..Len(ret) |-> IF ret[g][1] = 1 THEN 0 ELSE Ix(st.strides, ret[g][4])],
   mask    |-> [g \in 1..Len(ret) |-> \E a \in ret[g][3]..ret[g][4] : Ix(st.mask, a)]]

\* simplify_merge_adjacent (no buffer of the kernels explored has an image dtype)
simplify_merge_adjacent(kk) ==
  IF shape_len(kk) = 0 THEN kk
  ELSE
    LET rets0 == [j \in 1..Len(kk.sts) |->
                    <<<<kk.sts[j].shape[1], real_strides(kk.sts[j])[1], 0, 0>>>>]
        rets  == merge_rounds(kk, rets0, 1)
    IN [kk EXCEPT !.sts = [j \in 1..Len(kk.sts) |-> st_reshape_merge(kk.sts[j], rets[j])]]

\* ------------------------------------------------------- construction and copy

\* the trackers of the reduce ops: output side, then input side, of each
RECURSIVE reduce_sts(_)
reduce_sts(rs) ==
  IF rs = <<>> THEN <<>> ELSE <<Head(rs).st, Head(rs).src_st>> \o reduce_sts(Tail(rs))

\* index in bufs of the first early buffer of largest shape product; 0 without one
full_buf_index_of(ast) ==
  IF ast.earlybufs = <<>> THEN 0
  ELSE LET size(i) == prod(Ix(ast.buf_sts, ast.earlybufs[i]).shape)
           best == CHOOSE i \in 1..Len(ast.earlybufs) :
                     /\ \A j \in 1..Len(ast.earlybufs) : size(j) <= size(i)
                     /\ \A j \in 1..(i - 1) : size(j) < size(i)
       IN ast.earlybufs[best]

\* Kernel.__init__
KernelInit(ast) ==
  LET sts0    == ast.buf_sts \o reduce_sts(ast.reduceops)
      fbi     == full_buf_index_of(ast)
      fs      == Ix(sts0, fbi).shape
      os      == sts0[1].shape
      permute == SelectSeq(Range(0, Len(fs)), LAMBDA i : Ix(fs, i) = Ix(os, i))
                   \o SelectSeq(Range(0, Len(fs)), LAMBDA i : Ix(fs, i) # Ix(os, i))
      k0 == [sts               |-> reshape_and_permute(sts0, permute),
             full_buf_index    |-> fbi,
             applied_opts      |-> <<>>,
             group_for_reduces |-> 0,
             upcasted          |-> 0,
             local_dims        |-> 0,
             tensor_core       |-> 0,
             tensor_core_opts  |-> 0,
             use_tensor_cores  |-> 0,
             dont_use_locals   |-> FALSE]
  IN simplify_merge_adjacent(simplify_ones(k0).k)

\* copy() that starts the copy's applied_opts afresh
copy_without_applied_opts(kk, ast) ==
  [sts               |-> PySlice(kk.sts, 0, Len(ast.bufs) + Len(ast.reduceops) * 2),
   full_buf_index    |-> kk.full_buf_index,
   applied_opts      |-> <<>>,
   group_for_reduces |-> kk.group_for_reduces,
   upcasted          |-> kk.upcasted,
   local_dims        |-> kk.local_dims,
   tensor_core       |-> kk.tensor_core,
   tensor_core_opts  |-> kk.tensor_core_opts,
   use_tensor_cores  |-> kk.use_tensor_cores,
   dont_use_locals   |-> kk.dont_use_locals]

\* Kernel.copy: every field is copied by value except tensor_core_opts, which
\* keeps the reference to the same TensorCoreOptions object
copy(kk, ast) ==
  [sts               |-> PySlice(kk.sts, 0, Len(ast.bufs) + Len(ast.reduceops) * 2),
   full_buf_index    |-> kk.full_buf_index,
   applied_opts      |-> kk.applied_opts,
   group_for_reduces |-> kk.group_for_reduces,
   upcasted          |-> kk.upcasted,
   local_dims        |-> kk.local_dims,
   tensor_core       |-> kk.tensor_core,
   tensor_core_opts  |-> kk.tensor_core_opts,
   use_tensor_cores  |-> kk.use_tensor_cores,
   dont_use_locals   |-> kk.dont_use_locals]

\* ------------------------------------------------------- TensorCoreOptions
\* TensorCoreOptions objects are mutable and held by reference: heap maps a
\* reference (1 or 2; 0 is None) to the object's fields.

Refs == {1, 2}

NullTCO == [axes |-> <<>>, axes_exist |-> <<>>, axis_pads |-> <<>>]

EmptyHeap == [r \in Refs |-> NullTCO]

\* a reference no other kernel holds, for a newly constructed object
NewRef(live) == CHOOSE r \in Refs : r \notin live /\ \A q \in Refs : q \notin live => r <= q

\* fix_axes that adjusts the K axis as it adjusts the N and M axes
fix_axes_with_K(tco, removed_axis) ==
  [tco EXCEPT
     !.axes = [i \in 1..Len(tco.axes) |->
                 IF (i > 2 \/ tco.axes_exist[i]) /\ removed_axis < tco.axes[i]
                 THEN tco.axes[i] - 1 ELSE tco.axes[i]],
     !.axes_exist = [i \in 1..Len(tco.axes_exist) |->
                 IF tco.axes_exist[i] /\ removed_axis = tco.axes[i]
                 THEN FALSE ELSE tco.axes_exist[i]]]

\* TensorCoreOptions.fix_axes
fix_axes(tco, removed_axis) ==
  [tco EXCEPT
     !.axes = [i \in 1..Len(tco.axes) |->
                 IF i <= 2 /\ tco.axes_exist[i] /\ removed_axis < tco.axes[i]
                 THEN tco.axes[i] - 1 ELSE tco.axes[i]],
     !.axes_exist = [i \in 1..Len(tco.axes_exist) |->
                 IF tco.axes_exist[i] /\ ~(removed_axis < tco.axes[i]) /\ removed_axis = tco.axes[i]
                 THEN FALSE ELSE tco.axes_exist[i]]]

\* ------------------------------------------------------- tensor-core matcher

NoTCO == [none |-> TRUE, tco |-> NullTCO]

\* buf_index of _create_tc_opts: the position in bufs, -1 for None
buf_index(src, tc, opt_level) ==
  IF src.op = "LOAD" /\ src.dtype = tc.dtype_in THEN src.buf
  ELSE IF opt_level >= 1 /\ src.op = "CAST" /\ src.dtype = tc.dtype_in
       THEN (IF src.src # <<>> /\ src.src[1].buf >= 0 THEN src.src[1].buf ELSE -1)
       ELSE -1

\* the end of _create_tc_opts accepting pads at every opt_level
tc_opts_any_level(sel, axis_pads, opt_level) ==
  [none |-> FALSE,
   tco  |-> [axes |-> sel, axes_exist |-> <<TRUE, TRUE>>, axis_pads |-> axis_pads]]

\* the end of _create_tc_opts: None when a pad is needed and opt_level < 2
tc_opts_if_level(sel, axis_pads, opt_level) ==
  IF axis_pads # <<>> /\ opt_level < 2 THEN NoTCO
  ELSE [none |-> FALSE,
        tco  |-> [axes |-> sel, axes_exist |-> <<TRUE, TRUE>>, axis_pads |-> axis_pads]]

\* Kernel._create_tc_opts: [none, tco]
create_tc_opts(kk, ast, reduceop, tc, axis, opt_level) ==
  LET has_cast == tc.dtype_in # tc.dtype_out
      src0     == reduceop.src0
      \* the axes before the first reduce axis where a buffer has stride 0
      zero_axes(strides, fr) ==
        SelectSeq(Range(0, Len(PySlice(strides, 0, fr))), LAMBDA i : Ix(strides, i) = 0)
      padded_dims(sel, ids) ==
        tc_opts_if_level(sel, [j \in 1..Len(ids) |-> <<sel[ids[j]], tc.dims[ids[j]]>>],
                         opt_level)
      chosen(sel) ==
        padded_dims(sel, SelectSeq(<<1, 2, 3>>,
                                   LAMBDA i : Ix(full_shape(kk), sel[i]) % tc.dims[i] # 0))
      \* axis_choices[-(axis+1)] of the product of the three lists, in product order
      choice(axis_buf0, axis_buf1, reduce_range, c) ==
        chosen(<<Ix(axis_buf0, c \div (Len(axis_buf1) * Len(reduce_range))),
                 Ix(axis_buf1, (c \div Len(reduce_range)) % Len(axis_buf1)),
                 Ix(reduce_range, c % Len(reduce_range))>>)
      choices(axis_buf0, axis_buf1, reduce_range) ==
        IF ~(axis_buf0 # <<>> /\ axis_buf1 # <<>>
             /\ (Len(reduce_range) = 1 \/ opt_level >= 1))
        THEN NoTCO
        ELSE IF ~(axis < Len(axis_buf0) * Len(axis_buf1) * Len(reduce_range)) THEN NoTCO
        ELSE choice(axis_buf0, axis_buf1, reduce_range,
                    Len(axis_buf0) * Len(axis_buf1) * Len(reduce_range) - (axis + 1))
      bufs(buf0, buf1, fr) ==
        IF buf0 = -1 \/ buf1 = -1 THEN NoTCO
        ELSE choices(zero_axes(real_strides(Ix(kk.sts, buf0)), fr),
                     zero_axes(real_strides(Ix(kk.sts, buf1)), fr),
                     Range(fr, shape_len(kk)))
      mul(mul_op) ==
        IF mul_op.op # "MUL" THEN NoTCO
        ELSE bufs(buf_index(mul_op.src[1], tc, opt_level),
                  buf_index(mul_op.src[2], tc, opt_level), first_reduce(kk))
  IN
  IF has_cast /\ ~(src0.op = "CAST" /\ src0.dtype = tc.dtype_out) THEN NoTCO
  ELSE mul(IF has_cast THEN src0.src[1] ELSE src0)

\* ------------------------------------------------------------------ apply_opt
\* An opt is [op, axis, arg]: arg is <<>> for None, <<n>> for an int and
\* <<tc_select, tc_opt>> for the pair a TC opt carries.

Opt(op, axis, arg) == [op |-> op, axis |-> axis, arg |-> arg]

\* the result of a call: the kernel and the heap as the call leaves them and
\* the exception it raised ("" when it returned)
Res(kk, hp, err) == [k |-> kk, heap |-> hp, err |-> err]

\* s[i] with Python's negative indices
PyIx(s, i) == IF i < 0 THEN s[Len(s) + i + 1] ELSE s[i + 1]

real_axis(kk, opt) ==
  IF opt.axis = NoAxis THEN -1
  ELSE IF opt.op = "UNROLL" THEN first_reduce(kk) + opt.axis
  ELSE IF opt.op \in {"GROUP", "GROUPTOP"}
       THEN first_reduce(kk) + kk.group_for_reduces + opt.axis
  ELSE opt.axis

\* the amount of the opt and whether its checks pass
opt_amt(kk, opt, axis) ==
  IF opt.op = "SWAP" THEN [amt |-> opt.arg[1], ok |-> TRUE]
  ELSE IF opt.arg # <<>> THEN
    IF Len(opt.arg) # 1 THEN [amt |-> 0, ok |-> FALSE]
    ELSE LET amt == IF opt.arg[1] # 0 THEN opt.arg[1] ELSE PyIx(full_shape(kk), axis)
         IN IF amt = 1 THEN [amt |-> amt, ok |-> FALSE]
            ELSE IF opt.op # "PADTO" /\ PyIx(full_shape(kk), axis) % amt # 0
                 THEN [amt |-> amt, ok |-> FALSE]
                 ELSE [amt |-> amt, ok |-> TRUE]
  ELSE [amt |-> -1, ok |-> TRUE]

\* the shared memory an opt needs, when the budget check applies to it
smem_checked(kk, ast, opt) ==
  /\ ast.reduceops # <<>>
  /\ \/ opt.op \in {"GROUP", "GROUPTOP"}
     \/ (kk.group_for_reduces # 0 /\ opt.op \notin {"NOLOCALS", "PADTO"})

\* smem_sz without the sizes of the local and grouped axes
smem_sz_without_locals(kk, ast, amt) ==
  LET acc_sz    == ast.reduceops[1].itemsize
      a         == PySlice(full_shape(kk), first_upcast(kk), shape_len(kk))
      b         == PySlice(output_shape(kk), first_upcast(kk), shape_len(kk))
      upcast_sz == prod([j \in 1..Len(SelectSeq(Range(1, Len(a) + 1), LAMBDA i : a[i] = b[i])) |->
                           a[SelectSeq(Range(1, Len(a) + 1), LAMBDA i : a[i] = b[i])[j]]])
  IN amt * acc_sz * upcast_sz

smem_sz(kk, ast, amt) ==
  LET acc_sz    == ast.reduceops[1].itemsize
      a         == PySlice(full_shape(kk), first_upcast(kk), shape_len(kk))
      b         == PySlice(output_shape(kk), first_upcast(kk), shape_len(kk))
      upcast_sz == prod([j \in 1..Len(SelectSeq(Range(1, Len(a) + 1), LAMBDA i : a[i] = b[i])) |->
                           a[SelectSeq(Range(1, Len(a) + 1), LAMBDA i : a[i] = b[i])[j]]])
      local_sz  == prod(PySlice(full_shape(kk), first_reduce(kk) - kk.local_dims,
                                first_reduce(kk) + kk.group_for_reduces))
  IN amt * acc_sz * upcast_sz * local_sz

\* the loop of PADTO leaving the tracker of the output buffer as it is
padto_skips_output(sts, i, axis, amt, padded) ==
  LET s(j)   == Ix(sts[j].shape, axis)
      ru(j)  == round_up(s(j), amt) - s(j)
      pad(j) == j > 1 /\ s(j) # 1 /\ ru(j) # 0
  IN IF \E j \in 1..Len(sts) : s(j) # 1 /\ ~(s(j) > amt \div 4)
     THEN [sts |-> sts, padded |-> padded, err |-> "KernelOptError"]
     ELSE [sts    |-> [j \in 1..Len(sts) |-> IF pad(j) THEN st_pad(sts[j], axis, ru(j)) ELSE sts[j]],
           padded |-> padded \/ \E j \in 1..Len(sts) : pad(j),
           err    |-> ""]

\* the loop of PADTO without the check of the work the pad adds
RECURSIVE padto_loop_any_size(_, _, _, _, _)
padto_loop_any_size(sts, i, axis, amt, padded) ==
  IF i > Len(sts) THEN [sts |-> sts, padded |-> padded, err |-> ""]
  ELSE LET s == Ix(sts[i].shape, axis) IN
    IF s = 1 THEN padto_loop_any_size(sts, i + 1, axis, amt, padded)
    ELSE LET ru == round_up(s, amt) - s IN
      IF ru # 0
      THEN padto_loop_any_size([sts EXCEPT ![i] = st_pad(@, axis, ru)], i + 1, axis, amt, TRUE)
      ELSE padto_loop_any_size(sts, i + 1, axis, amt, padded)

\* the loop of PADTO over the trackers: [sts, padded, err]
RECURSIVE padto_loop(_, _, _, _, _)
padto_loop(sts, i, axis, amt, padded) ==
  IF i > Len(sts) THEN [sts |-> sts, padded |-> padded, err |-> ""]
  ELSE LET s == Ix(sts[i].shape, axis) IN
    IF s = 1 THEN padto_loop(sts, i + 1, axis, amt, padded)
    ELSE IF ~(s > amt \div 4) THEN [sts |-> sts, padded |-> padded, err |-> "KernelOptError"]
    ELSE LET ru == round_up(s, amt) - s IN
      IF ru # 0
      THEN padto_loop([sts EXCEPT ![i] = st_pad(@, axis, ru)], i + 1, axis, amt, TRUE)
      ELSE padto_loop(sts, i + 1, axis, amt, padded)

KRes(kk, err) == [k |-> kk, err |-> err]

\* shift_to followed by upcast(), as UNROLL and UPCAST call them
shift_and_upcast(kk, axis, amt) ==
  LET upcast(k1)  == IF ~upcast_ok(k1) THEN KRes(k1, "KernelOptError")
                     ELSE KRes([k1 EXCEPT !.upcasted = @ + 1], "")
      shifted(sh) == IF sh.err # "" THEN KRes(kk, sh.err)
                     ELSE upcast([kk EXCEPT !.sts = sh.sts])
  IN shifted(shift_to(kk, axis, amt, FALSE, NoAxis))

\* LOCAL that puts the new axis last, as UPCAST does
opt_LOCAL_shifts_to_end(kk, ast, axis, amt) ==
  IF ~ast.opts.has_local THEN KRes(kk, "KernelOptError")
  ELSE IF ~(axis < global_dims(kk)) THEN KRes(kk, "KernelOptError")
  ELSE LET shifted(sh) ==
             IF sh.err # "" THEN KRes(kk, sh.err)
             ELSE KRes([kk EXCEPT !.sts = sh.sts, !.local_dims = @ + 1], "")
       IN shifted(shift_to(kk, axis, amt, FALSE, NoAxis))

opt_LOCAL(kk, ast, axis, amt) ==
  IF ~ast.opts.has_local THEN KRes(kk, "KernelOptError")
  ELSE IF ~(axis < global_dims(kk)) THEN KRes(kk, "KernelOptError")
  ELSE LET shifted(sh) ==
             IF sh.err # "" THEN KRes(kk, sh.err)
             ELSE KRes([kk EXCEPT !.sts = sh.sts, !.local_dims = @ + 1], "")
       IN shifted(shift_to(kk, axis, amt, FALSE, first_reduce(kk)))

\* the axes the reduce ops name, with repetitions
RECURSIVE all_reduce_axes(_)
all_reduce_axes(rs) == IF rs = <<>> THEN <<>> ELSE Head(rs).axis_arg \o all_reduce_axes(Tail(rs))

\* GROUP and GROUPTOP both moving the inner factor of the split
opt_GROUP_moves_inner(kk, ast, op, axis, amt) ==
  LET reduce_axes == all_reduce_axes(ast.reduceops) IN
  IF ~(ast.opts.has_local /\ ast.opts.has_shared) THEN KRes(kk, "KernelOptError")
  ELSE IF ~(first_reduce(kk) + kk.group_for_reduces <= axis /\ axis < first_upcast(kk))
       THEN KRes(kk, "KernelOptError")
  ELSE IF kk.tensor_core # 0 THEN KRes(kk, "KernelOptError")
  ELSE IF Len(reduce_axes) # Cardinality({reduce_axes[i] : i \in 1..Len(reduce_axes)})
       THEN KRes(kk, "KernelOptError")
  ELSE LET shifted(sh) ==
             IF sh.err # "" THEN KRes(kk, sh.err)
             ELSE KRes([kk EXCEPT !.sts = sh.sts, !.group_for_reduces = @ + 1], "")
       IN shifted(shift_to(kk, axis, amt, FALSE, first_reduce(kk) + kk.group_for_reduces))

opt_GROUP(kk, ast, op, axis, amt) ==
  LET reduce_axes == all_reduce_axes(ast.reduceops) IN
  IF ~(ast.opts.has_local /\ ast.opts.has_shared) THEN KRes(kk, "KernelOptError")
  ELSE IF ~(first_reduce(kk) + kk.group_for_reduces <= axis /\ axis < first_upcast(kk))
       THEN KRes(kk, "KernelOptError")
  ELSE IF kk.tensor_core # 0 THEN KRes(kk, "KernelOptError")
  ELSE IF Len(reduce_axes) # Cardinality({reduce_axes[i] : i \in 1..Len(reduce_axes)})
       THEN KRes(kk, "KernelOptError")
  ELSE LET shifted(sh) ==
             IF sh.err # "" THEN KRes(kk, sh.err)
             ELSE KRes([kk EXCEPT !.sts = sh.sts, !.group_for_reduces = @ + 1], "")
       IN shifted(shift_to(kk, axis, amt, op = "GROUPTOP",
                           first_reduce(kk) + kk.group_for_reduces))

\* UNROLL that keeps group_for_reduces when it unrolls a whole grouped axis
opt_UNROLL_keeps_group(kk, axis, amt) ==
  IF ~(axis < first_upcast(kk)) THEN KRes(kk, "KernelOptError")
  ELSE IF ~(amt <= 32) THEN KRes(kk, "KernelOptError")
  ELSE
    shift_and_upcast(IF PyIx(full_shape(kk), axis) = amt /\ axis = first_reduce(kk)
                     THEN [kk EXCEPT !.local_dims = @ + 1] ELSE kk,
                     axis, amt)

\* UNROLL without the offset of local_dims for the whole first reduce axis
opt_UNROLL_without_offset(kk, axis, amt) ==
  IF ~(axis < first_upcast(kk)) THEN KRes(kk, "KernelOptError")
  ELSE IF ~(amt <= 32) THEN KRes(kk, "KernelOptError")
  ELSE
    shift_and_upcast(IF PyIx(full_shape(kk), axis) = amt
                        /\ axis < first_reduce(kk) + kk.group_for_reduces
                     THEN [kk EXCEPT !.group_for_reduces = @ - 1] ELSE kk,
                     axis, amt)

\* UNROLL that takes one from group_for_reduces for every unroll of a grouped
\* axis, whole or not
opt_UNROLL_ungroups_part(kk, axis, amt) ==
  IF ~(axis < first_upcast(kk)) THEN KRes(kk, "KernelOptError")
  ELSE IF ~(amt <= 32) THEN KRes(kk, "KernelOptError")
  ELSE
    LET ungroup(k1) == IF axis < first_reduce(k1) + k1.group_for_reduces
                       THEN [k1 EXCEPT !.group_for_reduces = @ - 1] ELSE k1
    IN shift_and_upcast(ungroup(IF PyIx(full_shape(kk), axis) = amt /\ axis = first_reduce(kk)
                                THEN [kk EXCEPT !.local_dims = @ + 1] ELSE kk),
                        axis, amt)

opt_UNROLL(kk, axis, amt) ==
  IF ~(axis < first_upcast(kk)) THEN KRes(kk, "KernelOptError")
  ELSE IF ~(amt <= 32) THEN KRes(kk, "KernelOptError")
  ELSE
    LET ungroup(k1) == IF PyIx(full_shape(k1), axis) = amt
                          /\ axis < first_reduce(k1) + k1.group_for_reduces
                       THEN [k1 EXCEPT !.group_for_reduces = @ - 1] ELSE k1
    IN shift_and_upcast(ungroup(IF PyIx(full_shape(kk), axis) = amt /\ axis = first_reduce(kk)
                                THEN [kk EXCEPT !.local_dims = @ + 1] ELSE kk),
                        axis, amt)

\* UPCAST without the limit on the amount
opt_UPCAST_any_amount(kk, ast, axis, amt) ==
  IF ~(axis < first_reduce(kk)) THEN KRes(kk, "KernelOptError")
  ELSE IF kk.tensor_core # 0 /\ global_dims(kk) <= axis
          /\ axis < global_dims(kk) + Len(get_local_axes(ast.opts.tensor_cores[kk.tensor_core]))
       THEN KRes(kk, "KernelOptError")
  ELSE shift_and_upcast(kk, axis, amt)

opt_UPCAST(kk, ast, axis, amt) ==
  IF ~(axis < first_reduce(kk)) THEN KRes(kk, "KernelOptError")
  ELSE IF kk.tensor_core # 0 /\ global_dims(kk) <= axis
          /\ axis < global_dims(kk) + Len(get_local_axes(ast.opts.tensor_cores[kk.tensor_core]))
       THEN KRes(kk, "KernelOptError")
  ELSE IF ~(ast.opts.device = "DSP" \/ amt <= 16) THEN KRes(kk, "KernelOptError")
  ELSE shift_and_upcast(kk, axis, amt)

\* NOLOCALS without its checks
opt_NOLOCALS_unchecked(kk, ast) == KRes([kk EXCEPT !.dont_use_locals = TRUE], "")

opt_NOLOCALS(kk, ast) ==
  IF ~(ast.opts.has_local /\ ~kk.dont_use_locals) THEN KRes(kk, "KernelOptError")
  ELSE IF ~(kk.local_dims = 0 /\ kk.group_for_reduces = 0) THEN KRes(kk, "KernelOptError")
  ELSE KRes([kk EXCEPT !.dont_use_locals = TRUE], "")

\* SWAP that moves axis amt to axis and leaves axis amt where it was
opt_SWAP_copies_axis(kk, axis, amt) ==
  IF ~(axis < amt /\ amt < global_dims(kk)) THEN KRes(kk, "KernelOptError")
  ELSE LET permute == [i \in 1..shape_len(kk) |-> IF i - 1 = axis THEN amt ELSE i - 1]
       IN KRes([kk EXCEPT !.sts = reshape_and_permute(kk.sts, permute)], "")

opt_SWAP(kk, axis, amt) ==
  IF ~(axis < amt /\ amt < global_dims(kk)) THEN KRes(kk, "KernelOptError")
  ELSE LET permute == [i \in 1..shape_len(kk) |->
                         IF i - 1 = axis THEN amt ELSE IF i - 1 = amt THEN axis ELSE i - 1]
       IN KRes([kk EXCEPT !.sts = reshape_and_permute(kk.sts, permute)], "")

\* PADTO without the check of the reduce op
opt_PADTO_any_reduce(kk, ast, axis, amt) ==
  IF ast.vars THEN KRes(kk, "KernelOptError")
  ELSE IF ~(axis < first_upcast(kk)) THEN KRes(kk, "KernelOptError")
  ELSE LET looped(l) ==
             KRes([kk EXCEPT !.sts = l.sts],
                  IF l.err # "" THEN l.err ELSE IF ~l.padded THEN "KernelOptError" ELSE "")
       IN looped(padto_loop(kk.sts, 1, axis, amt, FALSE))

opt_PADTO(kk, ast, axis, amt) ==
  IF ast.vars THEN KRes(kk, "KernelOptError")
  ELSE IF ~(axis < first_upcast(kk)) THEN KRes(kk, "KernelOptError")
  ELSE IF ast.reduceops # <<>> /\ first_reduce(kk) <= axis
          /\ ~(ast.reduceops[1].kind = "ADD" /\ ast.can_pad)
       THEN KRes(kk, "KernelOptError")
  ELSE LET looped(l) ==
             KRes([kk EXCEPT !.sts = l.sts],
                  IF l.err # "" THEN l.err ELSE IF ~l.padded THEN "KernelOptError" ELSE "")
       IN looped(padto_loop(kk.sts, 1, axis, amt, FALSE))

\* the dispatch on the opt kind
opt_dispatch(kk, ast, opt, axis, amt) ==
  CASE opt.op = "LOCAL"                  -> opt_LOCAL(kk, ast, axis, amt)
    [] opt.op \in {"GROUP", "GROUPTOP"}  -> opt_GROUP(kk, ast, opt.op, axis, amt)
    [] opt.op = "UNROLL"                 -> opt_UNROLL(kk, axis, amt)
    [] opt.op = "UPCAST"                 -> opt_UPCAST(kk, ast, axis, amt)
    [] opt.op = "NOLOCALS"               -> opt_NOLOCALS(kk, ast)
    [] opt.op = "SWAP"                   -> opt_SWAP(kk, axis, amt)
    [] opt.op = "PADTO"                  -> opt_PADTO(kk, ast, axis, amt)
    [] OTHER                             -> KRes(kk, "")

\* the end of apply_opt calling fix_axes whatever simplify_ones returned
opt_finish_always_fixes(kk, hp, opt, axis, append_opt) ==
  LET simplified(so) ==
        IF so.err # "" THEN Res(so.k, hp, so.err)
        ELSE IF so.k.tensor_core_opts # 0
             THEN Res(so.k, [hp EXCEPT ![so.k.tensor_core_opts] = fix_axes(@, axis)], "")
             ELSE Res(so.k, hp, "")
  IN simplified(simplify_ones(IF append_opt THEN [kk EXCEPT !.applied_opts = Append(@, opt)]
                              ELSE kk))

\* the end of apply_opt: append, simplify_ones, fix_axes
opt_finish(kk, hp, opt, axis, append_opt) ==
  LET simplified(so) ==
        IF so.err # "" THEN Res(so.k, hp, so.err)
        ELSE IF so.ret /\ so.k.tensor_core_opts # 0
             THEN Res(so.k, [hp EXCEPT ![so.k.tensor_core_opts] = fix_axes(@, axis)], "")
             ELSE Res(so.k, hp, "")
  IN simplified(simplify_ones(IF append_opt THEN [kk EXCEPT !.applied_opts = Append(@, opt)]
                              ELSE kk))

\* apply_opt once the branch of the opt kind has run: d is what it left
opt_dispatched(d, hp, opt, axis, append_opt) ==
  IF d.err # "" THEN Res(d.k, hp, d.err)
  ELSE opt_finish(d.k, hp, opt, axis, append_opt)

\* apply_opt for every opt kind but TC
apply_opt_shape(kk, hp, ast, opt, append_opt) ==
  IF kk.dont_use_locals /\ opt.op \in {"LOCAL", "GROUP", "GROUPTOP"}
  THEN Res(kk, hp, "KernelOptError")
  ELSE
  LET axis == real_axis(kk, opt)
      a    == opt_amt(kk, opt, real_axis(kk, opt))
  IN
  IF ~(axis < Len(full_shape(kk))) THEN Res(kk, hp, "KernelOptError")
  ELSE IF ~a.ok THEN Res(kk, hp, "KernelOptError")
  ELSE IF smem_checked(kk, ast, opt) /\ ~(smem_sz(kk, ast, a.amt) <= ast.opts.shared_max)
  THEN Res(kk, hp, "KernelOptError")
  ELSE opt_dispatched(opt_dispatch(kk, ast, opt, axis, a.amt), hp, opt, axis, append_opt)

\* the result of _apply_tc_opt and of its loops: ret is the value returned,
\* axis the current value of the local variable `axis`
TRes(kk, hp, err, ret, axis) == [k |-> kk, heap |-> hp, err |-> err, ret |-> ret, axis |-> axis]

\* the loop over tc_opts.axis_pads with each PADTO appended to applied_opts
RECURSIVE tc_pads_appends(_, _, _, _, _, _)
tc_pads_appends(kk, hp, ast, pads, i, axis) ==
  IF i > Len(pads) THEN TRes(kk, hp, "", TRUE, axis)
  ELSE LET applied(r) ==
             IF r.err # "" THEN TRes(r.k, r.heap, r.err, FALSE, pads[i][1])
             ELSE tc_pads_appends(r.k, r.heap, ast, pads, i + 1, pads[i][1])
       IN applied(apply_opt_shape(kk, hp, ast, Opt("PADTO", pads[i][1], <<pads[i][2]>>), TRUE))

\* for axis, dim in tc_opts.axis_pads: apply_opt(Opt(PADTO, axis, dim), append_opt=False)
RECURSIVE tc_pads(_, _, _, _, _, _)
tc_pads(kk, hp, ast, pads, i, axis) ==
  IF i > Len(pads) THEN TRes(kk, hp, "", TRUE, axis)
  ELSE LET applied(r) ==
             IF r.err # "" THEN TRes(r.k, r.heap, r.err, FALSE, pads[i][1])
             ELSE tc_pads(r.k, r.heap, ast, pads, i + 1, pads[i][1])
       IN applied(apply_opt_shape(kk, hp, ast, Opt("PADTO", pads[i][1], <<pads[i][2]>>), FALSE))

\* for dim, amt in tc.get_reduce_axes(): apply_opt(Opt(UNROLL, axes[2]-first_reduce, amt), False)
RECURSIVE tc_unrolls(_, _, _, _, _)
tc_unrolls(kk, hp, ast, raxes, i) ==
  IF i > Len(raxes) THEN Res(kk, hp, "")
  ELSE LET tco == hp[kk.tensor_core_opts]
           applied(r) == IF r.err # "" THEN r ELSE tc_unrolls(r.k, r.heap, ast, raxes, i + 1)
       IN applied(apply_opt_shape(kk, hp, ast,
                    Opt("UNROLL", tco.axes[3] - first_reduce(kk), <<raxes[i][2]>>), FALSE))

\* the loop over tc.opts with each of its opts appended to applied_opts
RECURSIVE tc_program_appends(_, _, _, _, _)
tc_program_appends(kk, hp, ast, prog, i) ==
  IF i > Len(prog) THEN Res(kk, hp, "")
  ELSE LET tco == hp[kk.tensor_core_opts]
           applied(r) ==
             IF r.err # "" THEN r ELSE tc_program_appends(r.k, r.heap, ast, prog, i + 1)
       IN applied(apply_opt_shape(kk, hp, ast,
                    Opt(IF prog[i].kind = "u" THEN "UPCAST" ELSE "LOCAL",
                        tco.axes[prog[i].which + 1], <<2>>), TRUE))

\* for opt in tc.opts: apply_opt(Opt(UPCAST or LOCAL, axes[int(opt[1])], 2), False)
RECURSIVE tc_program(_, _, _, _, _)
tc_program(kk, hp, ast, prog, i) ==
  IF i > Len(prog) THEN Res(kk, hp, "")
  ELSE LET tco == hp[kk.tensor_core_opts]
           applied(r) == IF r.err # "" THEN r ELSE tc_program(r.k, r.heap, ast, prog, i + 1)
       IN applied(apply_opt_shape(kk, hp, ast,
                    Opt(IF prog[i].kind = "u" THEN "UPCAST" ELSE "LOCAL",
                        tco.axes[prog[i].which + 1], <<2>>), FALSE))

\* the loop of _apply_tc_opt over the candidate tensor cores (tcs: their
\* positions in opts.tensor_cores, 1-based), one operator per stage of its
\* body: matched, padded, unrolled, programmed
RECURSIVE tc_loop(_, _, _, _, _, _, _, _)

\* after the opt program of the tensor core: g is what it left
tc_programmed(g, use_tensor_cores, tcs, axis) ==
  IF g.err # "" THEN TRes(g.k, g.heap, g.err, FALSE, axis)
  ELSE TRes([g.k EXCEPT !.tensor_core = Head(tcs), !.use_tensor_cores = use_tensor_cores],
            g.heap, "", TRUE, axis)

\* after the UNROLLs of the reduce dim: u is what they left
tc_unrolled(u, ast, use_tensor_cores, tcs, axis) ==
  IF u.err # "" THEN TRes(u.k, u.heap, u.err, FALSE, axis)
  ELSE tc_programmed(tc_program(u.k, u.heap, ast, ast.opts.tensor_cores[Head(tcs)].opts, 1),
                     use_tensor_cores, tcs, axis)

\* after the PADTOs: p is what they left; a KernelOptError goes on with the
\* next tensor core
tc_padded(p, ast, live, use_tensor_cores, tcs, opt_level) ==
  IF p.err = "KernelOptError"
  THEN tc_loop(p.k, p.heap, ast, live, use_tensor_cores, Tail(tcs), p.axis, opt_level)
  ELSE IF p.err # "" THEN p
  ELSE tc_unrolled(tc_unrolls(p.k, p.heap, ast,
                              get_reduce_axes(ast.opts.tensor_cores[Head(tcs)]), 1),
                   ast, use_tensor_cores, tcs, p.axis)

\* after _create_tc_opts for every reduce op
tc_matched(tensor_core_opts, kk, hp, ast, live, use_tensor_cores, tcs, axis, opt_level) ==
  IF \E r \in 1..Len(ast.reduceops) : tensor_core_opts[r] # tensor_core_opts[1]
  THEN TRes(kk, hp, "AssertionError", FALSE, axis)
  ELSE IF tensor_core_opts[1].none
  THEN tc_loop(kk, hp, ast, live, use_tensor_cores, Tail(tcs), axis, opt_level)
  ELSE tc_padded(tc_pads([kk EXCEPT !.tensor_core_opts = NewRef(live)],
                         [hp EXCEPT ![NewRef(live)] = tensor_core_opts[1].tco],
                         ast, tensor_core_opts[1].tco.axis_pads, 1, axis),
                 ast, live, use_tensor_cores, tcs, opt_level)

tc_loop(kk, hp, ast, live, use_tensor_cores, tcs, axis, opt_level) ==
  IF tcs = <<>> THEN TRes(kk, hp, "", FALSE, axis)
  ELSE tc_matched([r \in 1..Len(ast.reduceops) |->
                     create_tc_opts(kk, ast, ast.reduceops[r],
                                    ast.opts.tensor_cores[Head(tcs)], axis, opt_level)],
                  kk, hp, ast, live, use_tensor_cores, tcs, axis, opt_level)

\* Kernel._apply_tc_opt
apply_tc_opt(kk, hp, ast, live, use_tensor_cores, axis, tc_select, opt_level) ==
  IF use_tensor_cores # 0 /\ ast.reduceops # <<>> /\ ast.reduceops[1].kind = "ADD"
  THEN tc_loop(kk, hp, ast, live, use_tensor_cores,
               IF tc_select = -1 THEN Range(1, Len(ast.opts.tensor_cores) + 1)
               ELSE <<tc_select + 1>>,
               axis, opt_level)
  ELSE TRes(kk, hp, "", FALSE, axis)

\* apply_opt that takes a TC opt whatever applied_opts holds
apply_opt_tc_any_time(kk, hp, ast, live, opt, append_opt) ==
  IF kk.dont_use_locals /\ opt.op \in {"LOCAL", "GROUP", "GROUPTOP"}
  THEN Res(kk, hp, "KernelOptError")
  ELSE IF opt.op = "TC" THEN
    IF ~(ast.USE_TC = 2 \/ Len(ast.opts.tensor_cores) > 0) THEN Res(kk, hp, "KernelOptError")
    ELSE IF ~(opt.axis # NoAxis) THEN Res(kk, hp, "KernelOptError")
    ELSE IF ~(Len(opt.arg) = 2) THEN Res(kk, hp, "KernelOptError")
    ELSE IF ~(-1 <= opt.arg[1] /\ opt.arg[1] < Len(ast.opts.tensor_cores))
         THEN Res(kk, hp, "KernelOptError")
    ELSE IF ~(0 <= opt.arg[2] /\ opt.arg[2] <= 2) THEN Res(kk, hp, "KernelOptError")
    ELSE LET returned(t) ==
               IF t.err # "" THEN Res(t.k, t.heap, t.err)
               ELSE IF ~t.ret THEN Res(t.k, t.heap, "KernelOptError")
               ELSE Res([t.k EXCEPT !.applied_opts = Append(@, opt)], t.heap, "")
         IN returned(apply_tc_opt(kk, hp, ast, live, ast.USE_TC, opt.axis, opt.arg[1],
                                  opt.arg[2]))
  ELSE apply_opt_shape(kk, hp, ast, opt, append_opt)

\* Kernel.apply_opt; live: the TensorCoreOptions references other kernels hold
apply_opt(kk, hp, ast, live, opt, append_opt) ==
  IF kk.dont_use_locals /\ opt.op \in {"LOCAL", "GROUP", "GROUPTOP"}
  THEN Res(kk, hp, "KernelOptError")
  ELSE IF opt.op = "TC" THEN
    IF ~(Len(kk.applied_opts) = 0) THEN Res(kk, hp, "KernelOptError")
    ELSE IF ~(ast.USE_TC = 2 \/ Len(ast.opts.tensor_cores) > 0) THEN Res(kk, hp, "KernelOptError")
    ELSE IF ~(opt.axis # NoAxis) THEN Res(kk, hp, "KernelOptError")
    ELSE IF ~(Len(opt.arg) = 2) THEN Res(kk, hp, "KernelOptError")
    ELSE IF ~(-1 <= opt.arg[1] /\ opt.arg[1] < Len(ast.opts.tensor_cores))
         THEN Res(kk, hp, "KernelOptError")
    ELSE IF ~(0 <= opt.arg[2] /\ opt.arg[2] <= 2) THEN Res(kk, hp, "KernelOptError")
    ELSE LET returned(t) ==
               IF t.err # "" THEN Res(t.k, t.heap, t.err)
               ELSE IF ~t.ret THEN Res(t.k, t.heap, "KernelOptError")
               ELSE Res([t.k EXCEPT !.applied_opts = Append(@, opt)], t.heap, "")
         IN returned(apply_tc_opt(kk, hp, ast, live, ast.USE_TC, opt.axis, opt.arg[1],
                                  opt.arg[2]))
  ELSE apply_opt_shape(kk, hp, ast, opt, append_opt)

\* ---------------------------------------------------------- apply_tensor_cores

\* an argument left at None
NoneArg == -2

\* the settings TC_SELECT and TC_OPT
TC_SELECT == -1

TC_OPT == 0

\* what apply_tensor_cores does and returns: err is an exception it lets out
ARes(kk, hp, err, ret) == [k |-> kk, heap |-> hp, err |-> err, ret |-> ret]

\* extra_opts: given is FALSE for None
ExtraOpts(given, opts) == [given |-> given, opts |-> opts]

\* a step of apply_tensor_cores: "opt" applies the opt it carries, "follow" is
\* the choice of what comes after the TC opt, "upcast" and "local" are the
\* hand-coded opts on tc_opts.axes[tc_dim]
Step(kind, opt, tc_dim) == [kind |-> kind, opt |-> opt, tc_dim |-> tc_dim]

\* the steps that follow the TC opt: nothing without tensor_core_opts, the
\* extra opts when given, nothing under AMX, else the hand-coded upcasts of M
\* and N (of those that exist now) and the local of N
follow_steps(kk, hp, amx, extra_opts) ==
  IF kk.tensor_core_opts = 0 THEN <<>>
  ELSE IF extra_opts.given
  THEN [i \in 1..Len(extra_opts.opts) |-> Step("opt", extra_opts.opts[i], 0)]
  ELSE IF amx # 0 THEN <<>>
  ELSE [i \in 1..Len(SelectSeq(<<1, 0>>,
                       LAMBDA d : hp[kk.tensor_core_opts].axes_exist[d + 1])) |->
          Step("upcast", Opt("UPCAST", 0, <<>>),
               SelectSeq(<<1, 0>>, LAMBDA d : hp[kk.tensor_core_opts].axes_exist[d + 1])[i])]
       \o <<Step("local", Opt("LOCAL", 0, <<>>), 0)>>

\* the opt a step issues in the current state: [skip, opt]
step_opt(kk, hp, step) ==
  IF step.kind = "opt" THEN [skip |-> FALSE, opt |-> step.opt]
  ELSE
  LET tc_opts == hp[kk.tensor_core_opts]
      sizes == IF step.kind = "upcast" THEN <<5, 4, 3, 2>> ELSE <<4, 2>>
      szs == SelectSeq(sizes, LAMBDA sz :
                 Ix(full_shape(kk), tc_opts.axes[step.tc_dim + 1]) % sz = 0)
  IN IF step.kind = "local" /\ ~tc_opts.axes_exist[1]
     THEN [skip |-> TRUE, opt |-> step.opt]
     ELSE IF szs = <<>> THEN [skip |-> TRUE, opt |-> step.opt]
     ELSE [skip |-> FALSE,
           opt |-> Opt(step.opt.op, tc_opts.axes[step.tc_dim + 1], <<szs[1]>>)]

\* the body of the try of apply_tensor_cores going on after an opt that raised
RECURSIVE tc_steps_ignore_errors(_, _, _, _, _, _, _)
tc_steps_ignore_errors(kk, hp, ast, live, amx, extra_opts, steps) ==
  IF steps = <<>> THEN Res(kk, hp, "")
  ELSE IF Head(steps).kind = "follow"
  THEN tc_steps_ignore_errors(kk, hp, ast, live, amx, extra_opts,
                              follow_steps(kk, hp, amx, extra_opts))
  ELSE
  IF step_opt(kk, hp, Head(steps)).skip
  THEN tc_steps_ignore_errors(kk, hp, ast, live, amx, extra_opts, Tail(steps))
  ELSE
  LET applied(r) ==
        tc_steps_ignore_errors(r.k, r.heap, ast, live, amx, extra_opts, Tail(steps))
  IN applied(apply_opt(kk, hp, ast, live, step_opt(kk, hp, Head(steps)).opt, TRUE))

\* the body of the try of apply_tensor_cores, up to the first exception
RECURSIVE tc_steps(_, _, _, _, _, _, _)
tc_steps(kk, hp, ast, live, amx, extra_opts, steps) ==
  IF steps = <<>> THEN Res(kk, hp, "")
  ELSE IF Head(steps).kind = "follow"
  THEN tc_steps(kk, hp, ast, live, amx, extra_opts, follow_steps(kk, hp, amx, extra_opts))
  ELSE
  IF step_opt(kk, hp, Head(steps)).skip
  THEN tc_steps(kk, hp, ast, live, amx, extra_opts, Tail(steps))
  ELSE
  LET applied(r) ==
        IF r.err # "" THEN r
        ELSE tc_steps(r.k, r.heap, ast, live, amx, extra_opts, Tail(steps))
  IN applied(apply_opt(kk, hp, ast, live, step_opt(kk, hp, Head(steps)).opt, TRUE))

\* Kernel.apply_tensor_cores; amx: the setting AMX
apply_tensor_cores(kk, hp, ast, live, amx, use_tensor_cores, extra_opts, axis, tc_select, tc_opt) ==
  LET caught(r) ==
        IF r.err = "KernelOptError" THEN ARes(r.k, r.heap, "", FALSE)
        ELSE ARes(r.k, r.heap, r.err, r.err = "")
  IN IF ast.opts.tensor_cores = <<>> /\ use_tensor_cores # 2 THEN ARes(kk, hp, "", FALSE)
     ELSE caught(tc_steps(kk, hp, ast, live, amx, extra_opts,
                          <<Step("opt",
                                 Opt("TC", axis,
                                     <<IF tc_select = NoneArg THEN TC_SELECT ELSE tc_select,
                                       IF tc_opt = NoneArg THEN TC_OPT ELSE tc_opt>>), 0),
                            Step("follow", Opt("TC", axis, <<>>), 0)>>))

\* ---------------------------------------------------- hand_coded_optimizations
\* No buffer of the kernels explored has an image dtype, so
\* required_optimizations and the upcast of float4 images issue no opt; the
\* settings MV and NOLOCALS have their defaults 1 and 0.

\* the settings MV_BLOCKSIZE, MV_THREADS_PER_ROW and MV_ROWS_PER_THREAD
MV_BLOCKSIZE == 4

MV_THREADS_PER_ROW == 8

MV_ROWS_PER_THREAD == 4

\* s[::-1]
Reversed(s) == [i \in 1..Len(s) |-> s[Len(s) + 1 - i]]

\* ShapeTracker.unit_stride_axes()
unit_stride_axes(st) ==
  SelectSeq(Range(0, Len(st.shape)), LAMBDA i : Ix(real_strides(st), i) = 1)

\* self.apply_opt(opt) unless an exception is on its way out already
then_opt(r, ast, opt) ==
  IF r.err # "" THEN r ELSE apply_opt(r.k, r.heap, ast, {}, opt, TRUE)

\* for opt in opts: self.apply_opt(opt)
RECURSIVE then_opts(_, _, _)
then_opts(r, ast, opts) ==
  IF opts = <<>> \/ r.err # "" THEN r
  ELSE then_opts(apply_opt(r.k, r.heap, ast, {}, Head(opts), TRUE), ast, Tail(opts))

\* has_expanded_axis of the matvec detector
has_expanded_axis(st) ==
  \E i \in 1..Len(st.shape) : st.shape[i] > 1 /\ real_strides(st)[i] = 0

\* the matvec detector: [err, idx]; idx is the global_idx whose opts it
\* issues, NoAxis when it issues none; err is "IndexError" when the kernel has
\* no axis first_reduce to read the stride of
matvec_global_idx(kk, ast) ==
  IF ~(ast.opts.has_local /\ ast.reduceops # <<>>) THEN [err |-> "", idx |-> NoAxis]
  ELSE IF ~(ast.reduceops[1].kind = "ADD" /\ Len(full_shape(kk)) >= 2 /\ ast.opts.has_shared)
  THEN [err |-> "", idx |-> NoAxis]
  ELSE IF ast.reduceops[1].src0.op # "MUL" THEN [err |-> "", idx |-> NoAxis]
  ELSE IF ~(ast.reduceops[1].src0.src[1].op = "LOAD" /\ ast.reduceops[1].src0.src[2].op = "LOAD")
  THEN [err |-> "", idx |-> NoAxis]
  ELSE IF ~(first_reduce(kk) < shape_len(kk)) THEN [err |-> "IndexError", idx |-> NoAxis]
  ELSE
  LET st0  == Ix(kk.sts, ast.reduceops[1].src0.src[1].buf)
      st1  == Ix(kk.sts, ast.reduceops[1].src0.src[2].buf)
      fits == {g \in 0..(global_dims(kk) - 1) :
                 /\ Ix(full_shape(kk), first_reduce(kk)) % MV_THREADS_PER_ROW = 0
                 /\ Ix(full_shape(kk), g) % (MV_BLOCKSIZE * MV_ROWS_PER_THREAD) = 0}
  IN IF ~(Ix(real_strides(st0), first_reduce(kk)) = 1
          /\ ~(has_expanded_axis(st0) /\ has_expanded_axis(st1)))
     THEN [err |-> "", idx |-> NoAxis]
     ELSE IF fits = {} THEN [err |-> "", idx |-> NoAxis]
     ELSE [err |-> "", idx |-> CHOOSE g \in fits : \A h \in fits : g <= h]

\* the opts of the matvec branch with the LOCAL issued before the GROUP
matvec_opts_local_first(global_idx) ==
  << Opt("LOCAL", global_idx, <<MV_BLOCKSIZE>>),
     Opt("GROUP", 0, <<MV_THREADS_PER_ROW>>),
     Opt("UPCAST", global_idx, <<MV_ROWS_PER_THREAD>>) >>

\* the opts of the matvec branch
matvec_opts(global_idx) ==
  << Opt("GROUP", 0, <<MV_THREADS_PER_ROW>>),
     Opt("LOCAL", global_idx, <<MV_BLOCKSIZE>>),
     Opt("UPCAST", global_idx, <<MV_ROWS_PER_THREAD>>) >>

\* the sizes the grouping tries for GROUPTOP, in order (none when the kernel
\* is not grouped)
grouptop_sizes(kk, ast) ==
  IF ~(ast.opts.has_local /\ ast.opts.has_shared) THEN <<>>
  ELSE IF \E i \in 1..Len(unit_stride_axes(kk.sts[1])) :
            /\ unit_stride_axes(kk.sts[1])[i] >= first_upcast(kk)
            /\ Ix(output_shape(kk), unit_stride_axes(kk.sts[1])[i]) % 4 = 0
  THEN <<>>
  ELSE IF ~(first_reduce(kk) <= 2 /\ first_reduce(kk) < shape_len(kk)
            /\ prod(PySlice(output_shape(kk), 0, first_reduce(kk))) <= 2048)
  THEN <<>>
  ELSE IF prod(PySlice(output_shape(kk), 0, first_reduce(kk))) <= 32 THEN <<256, 16>>
  ELSE <<16>>

\* the loop over the sizes: the first GROUPTOP that is applied ends it, one
\* that raises KernelOptError is skipped
RECURSIVE try_grouptop(_, _, _, _)
try_grouptop(kk, hp, ast, szs) ==
  IF szs = <<>> THEN Res(kk, hp, "")
  ELSE IF ~(\A j \in 1..Len(kk.sts) :
              \/ Ix(kk.sts[j].shape, first_reduce(kk)) % Head(szs) = 0
              \/ Ix(kk.sts[j].shape, first_reduce(kk)) = 1)
  THEN try_grouptop(kk, hp, ast, Tail(szs))
  ELSE LET tried(r) ==
             IF r.err = "KernelOptError" THEN try_grouptop(r.k, r.heap, ast, Tail(szs)) ELSE r
       IN tried(apply_opt(kk, hp, ast, {}, Opt("GROUPTOP", 0, <<Head(szs)>>), TRUE))

\* to_upcast: the masked non-reduce axes of size <= 7 to upcast whole
RECURSIVE to_upcast(_, _, _)
to_upcast(kk, axis, acc) ==
  IF axis >= first_reduce(kk) THEN acc
  ELSE IF /\ Ix(full_shape(kk), axis) <= 7
          /\ \E j \in 1..Len(kk.sts) : Ix(kk.sts[j].mask, axis)
          /\ prod(PySlice(full_shape(kk), first_upcast(kk), shape_len(kk)))
               * prod([i \in 1..Len(acc) |-> Ix(full_shape(kk), acc[i])])
               * Ix(full_shape(kk), axis) <= 7 * 7
       THEN to_upcast(kk, axis + 1, Append(acc, axis))
       ELSE to_upcast(kk, axis + 1, acc)

\* for axis in to_upcast[::-1]: self.apply_opt(Opt(OptOps.UPCAST, axis, 0))
masked_upcasts(r, ast) ==
  IF r.err # "" THEN r
  ELSE then_opts(r, ast, [i \in 1..Len(to_upcast(r.k, 0, <<>>)) |->
                            Opt("UPCAST", Reversed(to_upcast(r.k, 0, <<>>))[i], <<0>>)])

\* the candidates of the scan taken among all axes, reduce and upcast included
xb_choices_any_axis(kk, ast, upcasted_axis) ==
  LET amounts == IF ast.opts.device = "DSP"
                 THEN (IF upcasted_axis = {} THEN {128} ELSE {}) ELSE {3, 4}
      stride_sum(axis) ==
        LET sum[n \in 0..Len(kk.sts)] ==
              IF n = 0 THEN 0 ELSE sum[n - 1] + Ix(kk.sts[n].strides, axis)
        IN sum[Len(kk.sts)]
      ok(axis, amount) ==
        /\ axis \notin upcasted_axis
        /\ Ix(full_shape(kk), axis) % amount = 0
        /\ \E j \in 1..Len(kk.sts) :
             /\ Ix(kk.sts[j].strides, axis) = 0
             /\ ~\E u \in (first_upcast(kk) + 1)..shape_len(kk) :
                   real_strides(kk.sts[j])[u] = 0
  IN {<<Cardinality({j \in 1..Len(kk.sts) : Ix(kk.sts[j].strides, p[1]) > 0}),
        stride_sum(p[1]), p[1], p[2]>> :
        p \in {q \in (0..(shape_len(kk) - 1)) \X amounts : ok(q[1], q[2])}}

\* xb_choices: <<buffers of positive stride, sum of strides, axis, amount>>
\* of every axis and amount the scan may upcast
xb_choices(kk, ast, upcasted_axis) ==
  LET amounts == IF ast.opts.device = "DSP"
                 THEN (IF upcasted_axis = {} THEN {128} ELSE {}) ELSE {3, 4}
      stride_sum(axis) ==
        LET sum[n \in 0..Len(kk.sts)] ==
              IF n = 0 THEN 0 ELSE sum[n - 1] + Ix(kk.sts[n].strides, axis)
        IN sum[Len(kk.sts)]
      ok(axis, amount) ==
        /\ axis \notin upcasted_axis
        /\ Ix(full_shape(kk), axis) % amount = 0
        /\ \E j \in 1..Len(kk.sts) :
             /\ Ix(kk.sts[j].strides, axis) = 0
             /\ ~\E u \in (first_upcast(kk) + 1)..shape_len(kk) :
                   real_strides(kk.sts[j])[u] = 0
  IN {<<Cardinality({j \in 1..Len(kk.sts) : Ix(kk.sts[j].strides, p[1]) > 0}),
        stride_sum(p[1]), p[1], p[2]>> :
        p \in {q \in (0..(first_reduce(kk) - 1)) \X amounts : ok(q[1], q[2])}}

\* sorted(xb_choices)[0]
first_choice(choices) ==
  CHOOSE c \in choices : \A d \in choices :
    \/ c[1] < d[1]
    \/ c[1] = d[1] /\ c[2] < d[2]
    \/ c[1] = d[1] /\ c[2] = d[2] /\ c[3] < d[3]
    \/ c[1] = d[1] /\ c[2] = d[2] /\ c[3] = d[3] /\ c[4] <= d[4]

\* the scan that upcasts non-reduce axes some buffer has stride 0 on, while
\* the output has 1024 elements or more
RECURSIVE zero_stride_upcasts(_, _, _)
zero_stride_upcasts(r, ast, upcasted_axis) ==
  IF r.err # "" THEN r
  ELSE IF ~(prod(PySlice(output_shape(r.k), 0, first_reduce(r.k))) >= 1024) THEN r
  ELSE IF xb_choices(r.k, ast, upcasted_axis) = {} THEN r
  ELSE zero_stride_upcasts(
         then_opt(r, ast, Opt("UPCAST", first_choice(xb_choices(r.k, ast, upcasted_axis))[3],
                              <<first_choice(xb_choices(r.k, ast, upcasted_axis))[4]>>)),
         ast, upcasted_axis \cup {first_choice(xb_choices(r.k, ast, upcasted_axis))[3]})

\* the axes the scan upcasts, one per iteration of its while loop, in order
RECURSIVE zero_stride_axes(_, _, _)
zero_stride_axes(r, ast, upcasted_axis) ==
  IF r.err # "" THEN <<>>
  ELSE IF ~(prod(PySlice(output_shape(r.k), 0, first_reduce(r.k))) >= 1024) THEN <<>>
  ELSE IF xb_choices(r.k, ast, upcasted_axis) = {} THEN <<>>
  ELSE <<first_choice(xb_choices(r.k, ast, upcasted_axis))[3]>> \o zero_stride_axes(
         then_opt(r, ast, Opt("UPCAST", first_choice(xb_choices(r.k, ast, upcasted_axis))[3],
                              <<first_choice(xb_choices(r.k, ast, upcasted_axis))[4]>>)),
         ast, upcasted_axis \cup {first_choice(xb_choices(r.k, ast, upcasted_axis))[3]})

\* the second UNROLL of a small reduce: s is the size the first one unrolled
second_unroll(r, ast, s) ==
  IF r.err # "" THEN r
  ELSE IF /\ first_reduce(r.k) < first_upcast(r.k) /\ s <= 3
          /\ Ix(full_shape(r.k), first_upcast(r.k) - 1) <= 3
       THEN then_opt(r, ast, Opt("UNROLL", first_upcast(r.k) - 1 - first_reduce(r.k), <<0>>))
       ELSE r

\* the unroll of the last axis when it is a reduce axis
tail_unroll(r, ast) ==
  IF r.err # "" THEN r
  ELSE IF ~(/\ first_reduce(r.k) < first_upcast(r.k)
            /\ \/ prod(PySlice(full_shape(r.k), first_upcast(r.k), shape_len(r.k))) <= 4
               \/ ~\E i \in first_upcast(r.k)..(shape_len(r.k) - 1) :
                     Ix(output_shape(r.k), i) # Ix(full_shape(r.k), i)
            /\ \/ r.k.upcasted = 0
               \/ prod(PySlice(full_shape(r.k), first_upcast(r.k), shape_len(r.k))) < 64)
  THEN r
  ELSE IF Ix(full_shape(r.k), first_upcast(r.k) - 1) <= 32
  THEN second_unroll(
         then_opt(r, ast, Opt("UNROLL", first_upcast(r.k) - 1 - first_reduce(r.k), <<0>>)),
         ast, Ix(full_shape(r.k), first_upcast(r.k) - 1))
  ELSE IF Ix(full_shape(r.k), first_upcast(r.k) - 1) % 4 = 0
  THEN then_opt(r, ast, Opt("UNROLL", first_upcast(r.k) - 1 - first_reduce(r.k), <<4>>))
  ELSE r

\* hand_coded_optimizations without the upcast of a kernel nothing is upcasted in
leading_upcast_never(r, ast) == r

\* the upcast by 4 of the last axis when nothing is upcasted
leading_upcast(r, ast) ==
  IF r.err # "" THEN r
  ELSE IF /\ r.k.upcasted = 0 /\ first_upcast(r.k) > 0
          /\ Ix(full_shape(r.k), first_upcast(r.k) - 1) % 4 = 0
       THEN then_opt(r, ast, Opt("UPCAST", first_upcast(r.k) - 1, <<4>>))
       ELSE r

\* to_local: <<axis, local_sz>> of the axes in the order of the ranking
RECURSIVE to_local(_, _, _)
to_local(kk, ranked, acc) ==
  IF ranked = <<>> THEN acc
  ELSE
  LET axis       == Head(ranked)
      local_size == prod([i \in 1..Len(acc) |-> acc[i][2]])
      sizes      == SelectSeq((IF axis = 0 THEN <<32>> ELSE <<>>) \o <<16, 8, 4, 3, 2>>,
                              LAMBDA x : Ix(full_shape(kk), axis) % x = 0 /\ local_size * x <= 128)
  IN IF sizes = <<>> THEN to_local(kk, Tail(ranked), acc)
     ELSE to_local(kk, Tail(ranked), Append(acc, <<axis, sizes[1]>>))

\* the axes before first_reduce sorted as local_axis_ranking is: those a
\* tracker has stride 0 on first, the larger axis first among equals
local_axis_ranking(kk) ==
  LET expanded(axis) == \E j \in 1..Len(kk.sts) : Ix(kk.sts[j].strides, axis) = 0
      axes == Reversed(Range(0, first_reduce(kk)))
  IN SelectSeq(axes, expanded) \o SelectSeq(axes, LAMBDA a : ~expanded(a))

\* for axis, local_sz in sorted(to_local[:3]): the LOCAL of each
RECURSIVE apply_locals(_, _, _, _)
apply_locals(r, ast, locals, deleted_shape) ==
  IF locals = <<>> \/ r.err # "" THEN r
  ELSE apply_locals(
         then_opt(r, ast, Opt("LOCAL", Head(locals)[1] - deleted_shape, <<Head(locals)[2]>>)),
         ast, Tail(locals),
         IF Head(locals)[2] = Ix(full_shape(r.k), Head(locals)[1] - deleted_shape)
         THEN deleted_shape + 1 ELSE deleted_shape)

\* the local groups
local_groups(r, ast) ==
  IF r.err # "" \/ ~ast.opts.has_local THEN r
  ELSE apply_locals(r, ast,
                    SortSeq(PySlice(to_local(r.k, local_axis_ranking(r.k), <<>>), 0, 3),
                            LAMBDA a, b : a[1] < b[1]),
                    0)

\* hand_coded_optimizations once the grouping is done
after_grouping(r, ast) ==
  IF r.err # "" \/ r.k.group_for_reduces # 0 THEN r
  ELSE local_groups(
         leading_upcast(tail_unroll(zero_stride_upcasts(masked_upcasts(r, ast), ast, {}), ast),
                        ast),
         ast)

\* hand_coded_optimizations once the matvec detector has answered
after_matvec(mv, kk, hp, ast) ==
  IF mv.err # "" THEN Res(kk, hp, mv.err)
  ELSE IF mv.idx # NoAxis THEN then_opts(Res(kk, hp, ""), ast, matvec_opts(mv.idx))
  ELSE after_grouping(try_grouptop(kk, hp, ast, grouptop_sizes(kk, ast)), ast)

\* Kernel.hand_coded_optimizations: the kernel it leaves and the exception it
\* lets out
hand_coded_optimizations(kk, hp, ast) ==
  after_matvec(matvec_global_idx(kk, ast), kk, hp, ast)

\* ------------------------------------------------------------ kernel outputs
\* the outputs of a kernel: name is the cached property Kernel.name (NoName
\* until it is first read), kernel_cnt the counter Kernel.kernel_cnt of the
\* class, by function name, and sink the arg of the SINK of the graph the last
\* get_optimized_ast returned (NoSink before the first)

NoName == [kernel_type |-> "", shape |-> <<>>, num |-> 0]

NoSink == [name |-> NoName, local_dims |-> -1, upcasted |-> -1, dont_use_locals |-> FALSE]

NoOutputs == [name |-> NoName, kernel_cnt |-> [fn \in {} |-> 0], sink |-> NoSink]

KernelInfo(name, local_dims, upcasted, dont_use_locals) ==
  [name |-> name, local_dims |-> local_dims, upcasted |-> upcasted,
   dont_use_locals |-> dont_use_locals]

\* the name of a kernel before the number: "r" with a reduce op, "E" without
\* (the graphs explored have one output and nodes that are no buffers), then
\* the sizes of full_shape
function_name(kk, ast) ==
  [kernel_type |-> IF ast.reduceops # <<>> THEN "r" ELSE "E", shape |-> full_shape(kk), num |-> 0]

\* Kernel.kernel_cnt[fn] of a defaultdict(int)
kernel_cnt_of(out, fn) == IF fn \in DOMAIN out.kernel_cnt THEN out.kernel_cnt[fn] ELSE 0

\* Kernel.name computed at every read
name_computed(kk, ast, out) ==
  [outputs |-> [out EXCEPT
                  !.name = [function_name(kk, ast) EXCEPT
                              !.num = kernel_cnt_of(out, function_name(kk, ast))],
                  !.kernel_cnt = [fn \in DOMAIN @ \cup {function_name(kk, ast)} |->
                                    IF fn = function_name(kk, ast)
                                    THEN kernel_cnt_of(out, fn) + 1 ELSE @[fn]]],
   name    |-> [function_name(kk, ast) EXCEPT
                  !.num = kernel_cnt_of(out, function_name(kk, ast))]]

\* Kernel.name: computed at the first read, which counts the kernel in
\* kernel_cnt and numbers it (num is 0 for the first kernel of the name, the
\* n of the suffix for the others), and cached from then on
name(kk, ast, out) ==
  IF out.name # NoName THEN [outputs |-> out, name |-> out.name]
  ELSE name_computed(kk, ast, out)

\* Kernel.get_optimized_ast: the kernel it leaves, the outputs, and the arg of
\* the SINK of the graph it returns; name_override is NoName for None
get_optimized_ast(kk, ast, out, name_override) ==
  LET info(nm) ==
        [k       |-> kk,
         outputs |-> nm.outputs,
         sink    |-> KernelInfo(nm.name, kk.local_dims, kk.upcasted, kk.dont_use_locals)]
  IN IF name_override = NoName THEN info(name(kk, ast, out))
     ELSE info([outputs |-> out, name |-> name_override])

\* --------------------------------------------------------------- state machine
\* cfg: which of Asts the kernel was built from (immutable); k: the kernel;
\* k2: its copy once copy() was called; heap: the TensorCoreOptions objects;
\* copied: copy() was called; driven: which of the two kernels the calls made
\* after copy() went to ("" before the first of them: a run drives one of the
\* two and leaves the other alone); ncalls: the calls that changed the state;
\* outputs: the name k has cached, the counter of the names and the arg of the
\* SINK the last get_optimized_ast on k returned.

Amts == {0, 2}

PadAmts == {4, 8}

Opts ==
  {Opt(op, axis, <<amt>>) : op \in {"UPCAST", "UNROLL", "LOCAL", "GROUP", "GROUPTOP"},
                            axis \in 0..MaxAxis, amt \in Amts}
  \cup {Opt("PADTO", axis, <<amt>>) : axis \in 0..MaxAxis, amt \in PadAmts}
  \cup {Opt("SWAP", axis, <<amt>>) : axis \in 0..(MaxAxis - 1), amt \in 1..MaxAxis}
  \cup {Opt("NOLOCALS", NoAxis, <<>>)}
  \cup {Opt("TC", 0, <<tc_select, tc_opt>>) : tc_select \in {-1, 0, 1}, tc_opt \in {0, 2}}
  \cup {Opt("TC", 1, <<-1, 2>>)}

NoKernel ==
  [sts |-> <<>>, full_buf_index |-> 0, applied_opts |-> <<>>, group_for_reduces |-> 0,
   upcasted |-> 0, local_dims |-> 0, tensor_core |-> 0, tensor_core_opts |-> 0,
   use_tensor_cores |-> 0, dont_use_locals |-> FALSE]

\* the objects no kernel refers to any more are dropped
Collect(hp, ka, kb) ==
  [r \in Refs |-> IF r \in {ka.tensor_core_opts, kb.tensor_core_opts} THEN hp[r] ELSE NullTCO]

\* k.apply_opt(opt, append_opt) and k2.apply_opt(opt, append_opt), as the
\* actions below make them
CallK(opt, append_opt) == apply_opt(k, heap, Asts[cfg], {k2.tensor_core_opts}, opt, append_opt)

CallK2(opt, append_opt) == apply_opt(k2, heap, Asts[cfg], {k.tensor_core_opts}, opt, append_opt)

\* the kernels the specifications of apply_opt and of copy start from
\* the kernels with three global axes, which SWAP is explored on
SwapCfgs == {i \in 1..Len(Asts) : Len(Asts[i].buf_sts[1].shape) = 4}

OptCfgs == {i \in (1..Len(Asts)) \ SwapCfgs : Asts[i].opts.tensor_cores # <<TC2216>>}

Init ==
  /\ cfg \in OptCfgs
  /\ k = KernelInit(Asts[cfg])
  /\ k2 = NoKernel
  /\ heap = EmptyHeap
  /\ copied = FALSE
  /\ driven = ""
  /\ ncalls = 0
  /\ outputs = NoOutputs

\* apply_tensor_cores is tried on every kernel of Asts
InitTC ==
  /\ cfg \in (1..Len(Asts)) \ SwapCfgs
  /\ k = KernelInit(Asts[cfg])
  /\ k2 = NoKernel
  /\ heap = EmptyHeap
  /\ copied = FALSE
  /\ driven = ""
  /\ ncalls = 0
  /\ outputs = NoOutputs

\* k.apply_opt(opt, append_opt)
ApplyOptK ==
  /\ ncalls < MaxCalls
  /\ driven # "k2"
  /\ \E opt \in Opts, append_opt \in BOOLEAN :
       \E r \in {CallK(opt, append_opt)} :
         \E hp \in {Collect(r.heap, r.k, k2)} :
           \E changed \in {r.k # k \/ hp # heap} :
             /\ k' = r.k
             /\ heap' = hp
             /\ ncalls' = IF changed THEN ncalls + 1 ELSE ncalls
             /\ driven' = IF changed /\ copied THEN "k" ELSE driven
             /\ UNCHANGED <<cfg, k2, copied, outputs>>

\* k2 = k.copy()
Copy ==
  /\ ~copied
  /\ k2' = copy(k, Asts[cfg])
  /\ copied' = TRUE
  /\ UNCHANGED <<cfg, k, heap, driven, ncalls, outputs>>

\* k2.apply_opt(opt, append_opt)
ApplyOptK2 ==
  /\ ncalls < MaxCalls
  /\ copied
  /\ driven # "k"
  /\ \E opt \in Opts, append_opt \in BOOLEAN :
       \E r \in {CallK2(opt, append_opt)} :
         \E hp \in {Collect(r.heap, k, r.k)} :
           \E changed \in {r.k # k2 \/ hp # heap} :
             /\ k2' = r.k
             /\ heap' = hp
             /\ ncalls' = IF changed THEN ncalls + 1 ELSE ncalls
             /\ driven' = IF changed THEN "k2" ELSE driven
             /\ UNCHANGED <<cfg, k, copied, outputs>>

\* how many of the arguments of a call of apply_tensor_cores differ from their
\* defaults (amx counts as one: its default is 0)
NonDefaults(a) ==
  (IF a.amx # 0 THEN 1 ELSE 0) + (IF a.use_tensor_cores # 1 THEN 1 ELSE 0)
  + (IF a.extra_opts.given THEN 1 ELSE 0) + (IF a.axis # 0 THEN 1 ELSE 0)
  + (IF a.tc_select # NoneArg THEN 1 ELSE 0) + (IF a.tc_opt # NoneArg THEN 1 ELSE 0)

\* the arguments of the calls of apply_tensor_cores explored
TCArgs ==
  {a \in [amx : {0, 1}, use_tensor_cores : {0, 1, 2},
          extra_opts : {ExtraOpts(FALSE, <<>>), ExtraOpts(TRUE, <<>>),
                        ExtraOpts(TRUE, <<Opt("UPCAST", 0, <<2>>), Opt("LOCAL", 0, <<2>>)>>),
                        ExtraOpts(TRUE, <<Opt("UPCAST", 0, <<2>>), Opt("GROUP", 0, <<2>>)>>)},
          axis : {0, 1}, tc_select : {NoneArg, 0, 1}, tc_opt : {NoneArg, 1, 2}] :
     NonDefaults(a) <= MaxArgs}

\* k.apply_tensor_cores(...)
CallTC(a) ==
  apply_tensor_cores(k, heap, Asts[cfg], {k2.tensor_core_opts}, a.amx, a.use_tensor_cores,
                     a.extra_opts, a.axis, a.tc_select, a.tc_opt)

ApplyTensorCoresK ==
  /\ ncalls < MaxCalls
  /\ driven # "k2"
  /\ \E a \in TCArgs :
       \E r \in {CallTC(a)} :
         \E hp \in {Collect(r.heap, r.k, k2)} :
           \E changed \in {r.k # k \/ hp # heap} :
             /\ k' = r.k
             /\ heap' = hp
             /\ ncalls' = IF changed THEN ncalls + 1 ELSE ncalls
             /\ driven' = IF changed /\ copied THEN "k" ELSE driven
             /\ UNCHANGED <<cfg, k2, copied, outputs>>

\* a single kernel driven by apply_opt
Next == ApplyOptK

Spec == Init /\ [][Next]_vars

\* a kernel and its copy
NextCopy == ApplyOptK \/ Copy \/ ApplyOptK2

SpecCopy == Init /\ [][NextCopy]_vars

\* a kernel with three global axes driven by apply_opt
InitSwap ==
  /\ cfg \in SwapCfgs
  /\ k = KernelInit(Asts[cfg])
  /\ k2 = NoKernel
  /\ heap = EmptyHeap
  /\ copied = FALSE
  /\ driven = ""
  /\ ncalls = 0
  /\ outputs = NoOutputs

SpecSwap == InitSwap /\ [][Next]_vars

\* a single kernel driven by apply_tensor_cores and apply_opt
NextTC == ApplyTensorCoresK \/ ApplyOptK

SpecTC == InitTC /\ [][NextTC]_vars

\* the constructor's simplifiers on a family of kernels out = in (no reduce
\* op) and out = sum over the axes red of in, of three axes; in SpecBuild cfg
\* is the member of the family and ncalls the simplifiers the constructor has
\* run

\* the layouts of the input buffer: contiguous, column-major, expanded along
\* axis 0 (stride 0), padded on the last axis (masked)
Layouts == {"contiguous", "transposed", "broadcast", "masked"}

BuildCfgs ==
  {c \in [shape : {<<a, b, d>> : a \in 1..MaxDim, b \in 1..MaxDim, d \in 1..MaxDim},
          red : SUBSET {0, 1, 2}, layout : Layouts] :
     \A r \in c.red : Ix(c.shape, r) > 1}

\* the shape of the output: 1 on the reduced axes
OutShape(shape, red) == [i \in 1..Len(shape) |-> IF (i - 1) \in red THEN 1 ELSE shape[i]]

\* the view of the input buffer
InTracker(shape, layout) ==
  CASE layout = "contiguous" -> st_from_shape(shape)
    [] layout = "transposed" ->
         Tracker(shape, [i \in 1..Len(shape) |->
                           IF shape[i] = 1 THEN 0 ELSE prod(SubSeq(shape, 1, i - 1))])
    [] layout = "broadcast"  -> [st_from_shape(shape) EXCEPT !.strides[1] = 0]
    [] layout = "masked"     ->
         [st_from_shape(shape) EXCEPT !.mask[Len(shape)] = shape[Len(shape)] > 1]

BuildAst(c) ==
  [bufs      |-> <<UNode("STORE", "float", <<>>, 0), UNode("LOAD", "float", <<>>, 1)>>,
   buf_sts   |-> <<st_from_shape(OutShape(c.shape, c.red)), InTracker(c.shape, c.layout)>>,
   reduceops |-> IF c.red = {} THEN <<>>
                 ELSE <<[kind |-> "ADD",
                         axis_arg |-> SelectSeq(<<0, 1, 2>>, LAMBDA a : a \in c.red),
                         itemsize |-> 4,
                         st |-> st_from_shape(OutShape(c.shape, c.red)),
                         src_st |-> st_from_shape(c.shape),
                         src0 |-> UNode("LOAD", "float", <<>>, 1)]>>,
   earlybufs |-> IF c.red = {} THEN <<>> ELSE <<1>>,
   vars      |-> FALSE,
   can_pad   |-> TRUE,
   opts      |-> Renderer(TRUE, TRUE, 32, "GPU", <<>>),
   USE_TC    |-> 0]

\* Kernel.__init__ without the move of the reduce axes to the end
kernel_before_simplify_unpermuted(ast) ==
  [sts               |-> ast.buf_sts \o reduce_sts(ast.reduceops),
   full_buf_index    |-> full_buf_index_of(ast),
   applied_opts      |-> <<>>,
   group_for_reduces |-> 0,
   upcasted          |-> 0,
   local_dims        |-> 0,
   tensor_core       |-> 0,
   tensor_core_opts  |-> 0,
   use_tensor_cores  |-> 0,
   dont_use_locals   |-> FALSE]

\* Kernel.__init__ up to the group simplifies
kernel_before_simplify(ast) ==
  LET sts0    == ast.buf_sts \o reduce_sts(ast.reduceops)
      fbi     == full_buf_index_of(ast)
      fs      == Ix(sts0, fbi).shape
      os      == sts0[1].shape
      permute == SelectSeq(Range(0, Len(fs)), LAMBDA i : Ix(fs, i) = Ix(os, i))
                   \o SelectSeq(Range(0, Len(fs)), LAMBDA i : Ix(fs, i) # Ix(os, i))
  IN [sts               |-> reshape_and_permute(sts0, permute),
      full_buf_index    |-> fbi,
      applied_opts      |-> <<>>,
      group_for_reduces |-> 0,
      upcasted          |-> 0,
      local_dims        |-> 0,
      tensor_core       |-> 0,
      tensor_core_opts  |-> 0,
      use_tensor_cores  |-> 0,
      dont_use_locals   |-> FALSE]

InitBuild ==
  /\ cfg \in BuildCfgs
  /\ k = kernel_before_simplify(BuildAst(cfg))
  /\ k2 = NoKernel
  /\ heap = EmptyHeap
  /\ copied = FALSE
  /\ driven = ""
  /\ ncalls = 0
  /\ outputs = NoOutputs

\* self.simplify_ones() of the constructor
SimplifyOnes ==
  /\ ncalls = 0
  /\ k' = simplify_ones(k).k
  /\ ncalls' = 1
  /\ UNCHANGED <<cfg, k2, heap, copied, driven, outputs>>

\* self.simplify_merge_adjacent() of the constructor
SimplifyMergeAdjacent ==
  /\ ncalls = 1
  /\ k' = simplify_merge_adjacent(k)
  /\ ncalls' = 2
  /\ UNCHANGED <<cfg, k2, heap, copied, driven, outputs>>

NextBuild == SimplifyOnes \/ SimplifyMergeAdjacent

SpecBuild == InitBuild /\ [][NextBuild]_vars

\* ------------------------------------------------ the hand-coded optimizations
\* the kernels hand_coded_optimizations is run on: a matrix-vector product, an
\* elementwise op, a sum over the last axis, a sum over the last two axes of
\* a permuted operand, an outer op of two expanded operands and an op on a
\* padded operand, under every renderer descriptor;
\* in SpecHand cfg is the member of the family, ncalls the calls made and
\* driven the exception the call let out

HandShapes ==
  [matvec      |-> {<<1024, 1024>>, <<16, 8>>, <<6, 8>>, <<16, 6>>},
   elementwise |-> {<<4>>, <<6>>, <<4096>>},
   reduce      |-> {<<4, 3>>, <<4, 40>>, <<4, 256>>, <<2048, 16>>, <<4096, 33>>},
   reduce2     |-> {<<4, 3, 3>>},
   outer       |-> {<<32, 32>>, <<64, 64>>, <<4, 128>>, <<128, 8>>, <<96, 12>>},
   padded      |-> {<<4, 5>>, <<8, 7>>}]

SharedMaxes == {16, 64, 32768}

HandCfgs ==
  {c \in [kind : DOMAIN HandShapes,
          shape : UNION {HandShapes[kd] : kd \in DOMAIN HandShapes},
          has_local : BOOLEAN, has_shared : BOOLEAN, shared_max : SharedMaxes,
          device : {"GPU", "DSP"}] :
     c.shape \in HandShapes[c.kind]}

\* the views of the buffers: the output first
HandSts(c) ==
  LET s == c.shape
  IN CASE c.kind = "matvec" ->
            <<Tracker(<<s[1], 1>>, <<1, 0>>), Tracker(s, <<s[2], 1>>), Tracker(s, <<0, 1>>)>>
       [] c.kind = "elementwise" -> <<st_from_shape(s), st_from_shape(s)>>
       [] c.kind = "reduce" -> <<Tracker(<<s[1], 1>>, <<1, 0>>), st_from_shape(s)>>
       [] c.kind = "reduce2" ->
            <<Tracker(<<s[1], 1, 1>>, <<1, 0, 0>>), Tracker(s, <<s[2] * s[3], 1, s[2]>>)>>
       [] c.kind = "outer" ->
            <<st_from_shape(s), Tracker(s, <<1, 0>>), Tracker(s, <<0, 1>>)>>
       [] c.kind = "padded" ->
            <<st_from_shape(s), [st_from_shape(s) EXCEPT !.mask[2] = TRUE]>>

HandAst(c) ==
  [bufs      |-> [i \in 1..Len(HandSts(c)) |->
                    UNode(IF i = 1 THEN "STORE" ELSE "LOAD", "float", <<>>, i - 1)],
   buf_sts   |-> HandSts(c),
   reduceops |-> IF c.kind \notin {"matvec", "reduce", "reduce2"} THEN <<>>
                 ELSE <<[kind |-> "ADD", axis_arg |-> Range(1, Len(c.shape)), itemsize |-> 4,
                         st |-> st_from_shape(HandSts(c)[1].shape),
                         src_st |-> st_from_shape(c.shape),
                         src0 |-> IF c.kind # "matvec" THEN UNode("LOAD", "float", <<>>, 1)
                                  ELSE UNode("MUL", "float",
                                             <<UNode("LOAD", "float", <<>>, 1),
                                               UNode("LOAD", "float", <<>>, 2)>>, -1)]>>,
   earlybufs |-> CASE c.kind = "matvec" -> <<1, 2>>
                   [] c.kind \in {"reduce", "reduce2"} -> <<1>>
                   [] OTHER -> <<>>,
   vars      |-> FALSE,
   can_pad   |-> TRUE,
   opts      |-> Renderer(c.has_local, c.has_shared, c.shared_max, c.device, <<>>),
   USE_TC    |-> 0]

InitHand ==
  /\ cfg \in HandCfgs
  /\ k = KernelInit(HandAst(cfg))
  /\ k2 = NoKernel
  /\ heap = EmptyHeap
  /\ copied = FALSE
  /\ driven = ""
  /\ ncalls = 0
  /\ outputs = NoOutputs

\* k.hand_coded_optimizations() on the fresh kernel
HandCodedOptimizations ==
  /\ ncalls = 0
  /\ \E r \in {hand_coded_optimizations(k, heap, HandAst(cfg))} :
       /\ k' = r.k
       /\ heap' = r.heap
       /\ driven' = r.err
  /\ ncalls' = 1
  /\ UNCHANGED <<cfg, k2, copied, outputs>>

NextHand == HandCodedOptimizations

SpecHand == InitHand /\ [][NextHand]_vars

\* ------------------------------------------------------------ kernel outputs
\* the kernels get_optimized_ast is called on between the opts
AstCfgs == {3, 4, 7}

\* the names given to get_optimized_ast: None and a name
NameOverrides == {NoName, [kernel_type |-> "test", shape |-> <<>>, num |-> 0]}

\* the process may have named a kernel of the same name before
InitAst ==
  /\ cfg \in AstCfgs
  /\ k = KernelInit(Asts[cfg])
  /\ k2 = NoKernel
  /\ heap = EmptyHeap
  /\ copied = FALSE
  /\ driven = ""
  /\ ncalls = 0
  /\ \E before \in SUBSET {function_name(k, Asts[cfg])} :
       outputs = [NoOutputs EXCEPT !.kernel_cnt = [fn \in before |-> 1]]

\* k.get_optimized_ast(name_override)
GetOptimizedAst ==
  /\ \E name_override \in NameOverrides :
       \E r \in {get_optimized_ast(k, Asts[cfg], outputs, name_override)} :
         /\ k' = r.k
         /\ outputs' = [r.outputs EXCEPT !.sink = r.sink]
  /\ UNCHANGED <<cfg, k2, heap, copied, driven, ncalls>>

NextAst == ApplyOptK \/ GetOptimizedAst

SpecAst == InitAst /\ [][NextAst]_vars

\* ---------------------------------------------------------------------- claims

\* the calls the actions make from the current state: (opt, append_opt)
Calls == IF ncalls < MaxCalls THEN Opts \X BOOLEAN ELSE {}

\* the fields of a kernel, tensor_core_opts read through its reference
\* (<<>> for None)
Deref(kk, hp) ==
  [kk EXCEPT !.tensor_core_opts = IF @ = 0 THEN <<>> ELSE <<hp[@]>>]

\* C1: when apply_opt of an UPCAST, UNROLL, LOCAL, GROUP, GROUPTOP, NOLOCALS,
\* SWAP or PADTO opt raises KernelOptError, every field of the kernel (the
\* tensor-core fields included) is as it was before the call.
C1_FailedOptLeavesState ==
  \A c \in Calls :
    c[1].op # "TC" =>
      \A r \in {CallK(c[1], c[2])} :
        r.err = "KernelOptError" => Deref(r.k, r.heap) = Deref(k, heap)

\* an opt was applied, and on the kernel it left an UNROLL, a PADTO and a
\* LOCAL opt each raise KernelOptError
C1_Witness ==
  /\ k.applied_opts # <<>>
  /\ \A op \in {"UNROLL", "PADTO", "LOCAL"} :
       \E c \in Calls : c[1].op = op /\ CallK(c[1], c[2]).err = "KernelOptError"

\* C2 as stated: when apply_opt of a TC opt raises KernelOptError, the kernel
\* is exactly as before the call (tensor_core_opts unset, no tracker padded or
\* reshaped, counters and applied_opts unchanged).
C2_FailedTCLeavesKernel ==
  \A c \in Calls :
    c[1].op = "TC" =>
      \A r \in {CallK(c[1], c[2])} :
        r.err = "KernelOptError" => Deref(r.k, r.heap) = Deref(k, heap)

\* C3: 0 <= local_dims <= first_reduce, group_for_reduces >= 0 and
\* first_reduce + group_for_reduces <= first_upcast <= shape_len, so the five
\* segment lengths of colors() are non-negative and sum to shape_len.
C3_CountersInRange ==
  /\ 0 <= k.local_dims /\ k.local_dims <= first_reduce(k)
  /\ k.group_for_reduces >= 0
  /\ first_reduce(k) + k.group_for_reduces <= first_upcast(k)
  /\ first_upcast(k) <= shape_len(k)
  /\ global_dims(k) >= 0 /\ k.upcasted >= 0
  /\ first_upcast(k) - (first_reduce(k) + k.group_for_reduces) >= 0
  /\ global_dims(k) + k.local_dims + k.group_for_reduces
       + (first_upcast(k) - (first_reduce(k) + k.group_for_reduces)) + k.upcasted
     = shape_len(k)

\* a kernel with a local, a grouped and a reduce axis
C3_Witness ==
  /\ k.local_dims > 0 /\ k.group_for_reduces > 0
  /\ first_reduce(k) + k.group_for_reduces < first_upcast(k)

\* C4: every tracker has as many axes as full_shape, and on every axis its
\* size is full_shape's or is 1 where full_shape's is greater (a reduce axis).
C4_TrackersAgree ==
  \A j \in 1..Len(k.sts) :
    /\ Len(k.sts[j].shape) = Len(full_shape(k))
    /\ \A i \in 1..Len(full_shape(k)) :
         \/ k.sts[j].shape[i] = full_shape(k)[i]
         \/ (k.sts[j].shape[i] = 1 /\ full_shape(k)[i] > 1)

\* two opts were applied, one of them padded a tracker, and the output has a
\* reduce axis of size 1
C4_Witness ==
  /\ ncalls = 2
  /\ \E j \in 1..Len(k.sts) : \E i \in 1..Len(k.sts[j].shape) : k.sts[j].mask[i]
  /\ \E i \in 1..Len(full_shape(k)) : output_shape(k)[i] = 1 /\ full_shape(k)[i] > 1

\* C5: dont_use_locals implies local_dims = 0 and group_for_reduces = 0, also
\* after an UNROLL applied once NOLOCALS is set.
C5_NoLocalsMeansNone ==
  k.dont_use_locals => (k.local_dims = 0 /\ k.group_for_reduces = 0)

\* NOLOCALS, then the UNROLL of the whole first reduce axis (the case that
\* increments local_dims for a while)
C5_Witness ==
  /\ k.dont_use_locals
  /\ Len(k.applied_opts) = 2
  /\ k.applied_opts[2] = Opt("UNROLL", 0, <<0>>)

\* C6 as stated: after k2 = k.copy(), a call of apply_opt on k2 changes no
\* field of k (the axes and axes_exist of its tensor_core_opts included), and
\* a call on k changes no field of k2.
C6_CopyIsolated ==
  [][/\ (driven' = "k2" => Deref(k', heap') = Deref(k, heap))
     /\ (driven' = "k" => Deref(k2', heap') = Deref(k2, heap))]_vars

\* C7: apply_opt(opt) on k and on its fresh copy k2 have the same outcome and
\* leave equal fields.
C7_CopyAppliesAlike ==
  (copied /\ driven = "") =>
    \A c \in Calls :
      \A a \in {CallK(c[1], c[2])} : \A b \in {CallK2(c[1], c[2])} :
        a.err = b.err /\ Deref(a.k, a.heap) = Deref(b.k, b.heap)

\* the fresh copy of a kernel with applied opts and a tensor core, on which
\* some opt succeeds and some opt raises
C7_Witness ==
  /\ copied /\ driven = ""
  /\ k.tensor_core # 0
  /\ \E c \in Calls : CallK2(c[1], c[2]).err = "" /\ CallK2(c[1], c[2]).k # k2
  /\ \E c \in Calls : CallK2(c[1], c[2]).err = "KernelOptError"

\* C8: apply_opt of a TC opt raises KernelOptError whenever applied_opts is
\* non-empty; and where tensor_core is set, applied_opts[0] is a TC opt and no
\* other entry of applied_opts is one.
C8_TCOnlyFirst ==
  /\ \A c \in Calls :
       (c[1].op = "TC" /\ k.applied_opts # <<>>) => CallK(c[1], c[2]).err = "KernelOptError"
  /\ k.tensor_core # 0 =>
       /\ k.applied_opts # <<>>
       /\ k.applied_opts[1].op = "TC"
       /\ \A i \in 2..Len(k.applied_opts) : k.applied_opts[i].op # "TC"

\* a TC opt was applied, and TC opts are tried again on the kernel it left
C8_Witness ==
  /\ k.tensor_core # 0
  /\ \E c \in Calls : c[1].op = "TC"

\* the tensor-core fields of a kernel
TCFields(kk, hp) == <<kk.tensor_core, Deref(kk, hp).tensor_core_opts, kk.use_tensor_cores>>

\* the call left the kernel with an axis less than its split made: the opt
\* emptied an axis and simplify_ones removed it
RemovedAxis(c, r) ==
  /\ r.err = ""
  /\ c[1].op \in {"UPCAST", "UNROLL", "LOCAL", "GROUP", "GROUPTOP"}
  /\ shape_len(r.k) = shape_len(k)

\* C9 as stated: none of tensor_core, tensor_core_opts (its axes and
\* axes_exist included) and use_tensor_cores is set where no TC opt has
\* succeeded, no opt but a TC opt changes them, and once a TC opt has
\* succeeded no call changes them.
C9_TensorCoreFieldsFrozen ==
  /\ k.tensor_core = 0 => (k.tensor_core_opts = 0 /\ k.use_tensor_cores = 0)
  /\ \A c \in Calls :
       \A r \in {CallK(c[1], c[2])} :
         (k.tensor_core # 0 \/ c[1].op # "TC") => TCFields(r.k, r.heap) = TCFields(k, heap)

\* C9, amended: tensor_core and use_tensor_cores are set together, only by a
\* TC opt that succeeds, and never change once set; no opt but a TC opt, and
\* no opt at all once a TC opt has succeeded, replaces the tensor_core_opts
\* object, whose axis_pads and reduce axis stay and whose axes and axes_exist
\* change exactly when the opt emptied an axis, by fix_axes of the opt's axis.
C9_TensorCoreSetOnce ==
  /\ (k.tensor_core = 0) = (k.use_tensor_cores = 0)
  /\ k.tensor_core # 0 => k.tensor_core_opts # 0
  /\ \A c \in Calls :
       \A r \in {CallK(c[1], c[2])} :
         /\ (k.tensor_core # 0 \/ c[1].op # "TC" \/ r.err # "") =>
              /\ r.k.tensor_core = k.tensor_core
              /\ r.k.use_tensor_cores = k.use_tensor_cores
         /\ (k.tensor_core # 0 \/ c[1].op # "TC") =>
              /\ r.k.tensor_core_opts = k.tensor_core_opts
              /\ k.tensor_core_opts # 0 =>
                   r.heap[k.tensor_core_opts] =
                     IF RemovedAxis(c, r)
                     THEN fix_axes(heap[k.tensor_core_opts], real_axis(k, c[1]))
                     ELSE heap[k.tensor_core_opts]

\* a TC opt has succeeded, and of the opts applied to the kernel it left one
\* changes the axes of tensor_core_opts and another leaves them
C9_Witness ==
  /\ k.tensor_core # 0
  /\ \E c \in Calls : \E r \in {CallK(c[1], c[2])} :
       r.err = "" /\ r.heap[k.tensor_core_opts].axes # heap[k.tensor_core_opts].axes
  /\ \E c \in Calls : \E r \in {CallK(c[1], c[2])} :
       r.err = "" /\ r.k # k /\ r.heap[k.tensor_core_opts] = heap[k.tensor_core_opts]

\* C10 as stated: a successful apply_opt(opt, append_opt=true) appends opt at
\* the end of applied_opts; a successful call with append_opt=false (of every
\* opt kind, TC included) and a failing call leave applied_opts unchanged.
C10_AppliedOptsTracksCalls ==
  \A c \in Calls :
    \A r \in {CallK(c[1], c[2])} :
      r.k.applied_opts = IF r.err = "" /\ c[2] THEN Append(k.applied_opts, c[1])
                         ELSE k.applied_opts

\* C11: a TC opt that succeeds (it is only accepted with applied_opts empty)
\* leaves applied_opts holding that TC opt and nothing else: the PADTO, UNROLL,
\* UPCAST and LOCAL opts the matcher plans are applied but none is appended.
C11_TCAppendsOnlyItself ==
  \A c \in Calls : c[1].op = "TC" =>
    \A r \in {CallK(c[1], c[2])} :
      r.err = "" => /\ k.applied_opts = <<>>
                    /\ r.k.applied_opts = <<c[1]>>

\* a TC opt has succeeded: its planned opts changed the shapes and the
\* counters, one of them was a PADTO (a tracker is masked), and applied_opts
\* holds the TC opt alone
C11_Witness ==
  /\ k.tensor_core # 0
  /\ k.upcasted > 0 /\ k.local_dims > 0
  /\ shape_len(k) > shape_len(KernelInit(Asts[cfg]))
  /\ \E j \in 1..Len(k.sts) : \E a \in 1..shape_len(k) : k.sts[j].mask[a]
  /\ Len(k.applied_opts) = 1 /\ k.applied_opts[1].op = "TC"

\* C12: for tensor core t and the (N, M, K) axes the matcher selects for the
\* selection index axis: when full_shape on one of the three is no multiple
\* of the matching entry of tc.dims, no tc_opt below 2 gets that tensor core
\* applied (_create_tc_opts returns None, the TC opt naming that tensor core
\* raises KernelOptError and apply_tensor_cores returns false); when all three
\* are multiples no pad is planned and the TC opt pads no tracker.
TCSelected(t, axis) ==
  create_tc_opts(k, Asts[cfg], Asts[cfg].reduceops[1], Asts[cfg].opts.tensor_cores[t], axis, 2)

TCNeedsPad(t, sel) ==
  \E i \in 1..3 : Ix(full_shape(k), sel[i]) % Asts[cfg].opts.tensor_cores[t].dims[i] # 0

Masked(kk) == \E j \in 1..Len(kk.sts) : \E a \in 1..shape_len(kk) : kk.sts[j].mask[a]

C12_PadNeedsTcOpt2 ==
  (ncalls < MaxCalls /\ Asts[cfg].reduceops # <<>>) =>
    \A t \in 1..Len(Asts[cfg].opts.tensor_cores), axis \in {0, 1} :
      \A s \in {TCSelected(t, axis)} :
        ~s.none =>
          IF TCNeedsPad(t, s.tco.axes)
          THEN \A lvl \in {0, 1} :
                 /\ create_tc_opts(k, Asts[cfg], Asts[cfg].reduceops[1],
                                   Asts[cfg].opts.tensor_cores[t], axis, lvl).none
                 /\ \A r \in {CallK(Opt("TC", axis, <<t - 1, lvl>>), TRUE)} :
                      r.err = "KernelOptError" /\ r.k.tensor_core = k.tensor_core
                 /\ \A u \in {1, 2}, amx \in {0, 1} :
                      \A r \in {CallTC([amx |-> amx, use_tensor_cores |-> u,
                                         extra_opts |-> ExtraOpts(FALSE, <<>>), axis |-> axis,
                                         tc_select |-> t - 1, tc_opt |-> lvl])} :
                        ~r.ret /\ r.err = "" /\ r.k.tensor_core = k.tensor_core
          ELSE /\ s.tco.axis_pads = <<>>
               /\ \A lvl \in {0, 1, 2} :
                    \A r \in {CallK(Opt("TC", axis, <<t - 1, lvl>>), TRUE)} :
                      (r.err = "" /\ ~Masked(k)) => ~Masked(r.k)

\* apply_tensor_cores was called with tc_opt 1 and every tensor core as a
\* candidate on a kernel whose first tensor core needs a pad and whose second
\* needs none: the second was applied and nothing was padded
C12_Witness ==
  /\ k.tensor_core = 2
  /\ ~Masked(k)
  /\ k.applied_opts[1] = Opt("TC", 0, <<-1, 1>>)
  /\ \E i \in 1..3 : Ix(full_shape(KernelInit(Asts[cfg])), i - 1)
                         % Asts[cfg].opts.tensor_cores[1].dims[i] # 0

\* the selected K axis is the only one of (N, M, K) that is no multiple of the
\* matching entry of tc.dims
TCNeedsPadOfKOnly(t, sel) ==
  /\ \A i \in 1..2 : Ix(full_shape(k), sel[i]) % Asts[cfg].opts.tensor_cores[t].dims[i] = 0
  /\ Ix(full_shape(k), sel[3]) % Asts[cfg].opts.tensor_cores[t].dims[3] # 0

\* apply_tensor_cores(tc_select=t-1, tc_opt=2) with the other arguments at
\* their defaults, under the setting amx
CallTCPadding(t, amx) ==
  CallTC([amx |-> amx, use_tensor_cores |-> 1, extra_opts |-> ExtraOpts(FALSE, <<>>),
          axis |-> 0, tc_select |-> t - 1, tc_opt |-> 2])

\* C13 as stated: on a fresh matmul kernel whose K axis alone is no multiple
\* of the tensor core's dims, apply_tensor_cores with tc_opt=2 succeeds and
\* afterwards applied_opts contains a PADTO opt at the K axis.
C13_PadtoInAppliedOpts ==
  (k = KernelInit(Asts[cfg]) /\ Asts[cfg].reduceops # <<>>) =>
    \A t \in 1..Len(Asts[cfg].opts.tensor_cores), amx \in {0, 1} :
      \A s \in {TCSelected(t, 0)} :
        (~s.none /\ TCNeedsPadOfKOnly(t, s.tco.axes)) =>
          \A r \in {CallTCPadding(t, amx)} :
            /\ r.ret
            /\ \E i \in 1..Len(r.k.applied_opts) :
                 r.k.applied_opts[i].op = "PADTO" /\ r.k.applied_opts[i].axis = s.tco.axes[3]

\* C13, amended: on such a kernel apply_tensor_cores with tc_opt=2 succeeds,
\* the K axis is padded to the next multiple of the tensor core's K dimension
\* (the trackers are masked), and applied_opts starts with the TC opt and
\* holds no PADTO opt: the PADTO is applied with append_opt=False.
C13_PadtoAppliedNotRecorded ==
  (k = KernelInit(Asts[cfg]) /\ Asts[cfg].reduceops # <<>>) =>
    \A t \in 1..Len(Asts[cfg].opts.tensor_cores), amx \in {0, 1} :
      \A s \in {TCSelected(t, 0)} :
        (~s.none /\ TCNeedsPadOfKOnly(t, s.tco.axes)) =>
          \A r \in {CallTCPadding(t, amx)} :
            /\ r.ret /\ r.err = ""
            /\ r.k.tensor_core = t
            /\ r.k.applied_opts[1] = Opt("TC", 0, <<t - 1, 2>>)
            /\ \A i \in 1..Len(r.k.applied_opts) : r.k.applied_opts[i].op # "PADTO"
            /\ Masked(r.k)
            /\ prod(full_shape(r.k)) * Ix(full_shape(k), s.tco.axes[3]) =
                 prod(full_shape(k)) * round_up(Ix(full_shape(k), s.tco.axes[3]),
                                                Asts[cfg].opts.tensor_cores[t].dims[3])

\* one call of apply_tensor_cores with tc_opt 2 on the 4x4x20 matmul applied
\* the tensor core with K dimension 16 and the hand-coded upcasts: K is padded
\* to 32 and applied_opts holds the TC opt and the two UPCASTs
C13_Witness ==
  /\ ncalls = 1
  /\ full_shape(KernelInit(Asts[cfg])) = <<4, 4, 20>>
  /\ k.tensor_core = 1
  /\ prod(full_shape(k)) = 4 * 4 * 32
  /\ Masked(k)
  /\ Len(k.applied_opts) = 3
  /\ k.applied_opts[1] = Opt("TC", 0, <<-1, 2>>)

\* the TC opt apply_tensor_cores issues for the arguments a
TCOptOf(a) ==
  Opt("TC", a.axis, <<IF a.tc_select = NoneArg THEN TC_SELECT ELSE a.tc_select,
                      IF a.tc_opt = NoneArg THEN TC_OPT ELSE a.tc_opt>>)

\* k.apply_opt(opt) on what res left, when res is no failure
ThenOpt(res, opt) ==
  IF res.err # "" THEN res
  ELSE apply_opt(res.k, res.heap, Asts[cfg], {k2.tensor_core_opts}, opt, TRUE)

\* the extra opts one after the other, up to the first that fails
RECURSIVE ThenOpts(_, _)
ThenOpts(res, opts) ==
  IF opts = <<>> THEN res ELSE ThenOpts(ThenOpt(res, Head(opts)), Tail(opts))

\* the first of sizes that divides full_shape at the tensor core's axis
\* tc_dim, as a sequence (empty when none does)
FollowSize(res, tc_dim, sizes) ==
  SelectSeq(sizes, LAMBDA sz :
    Ix(full_shape(res.k), res.heap[res.k.tensor_core_opts].axes[tc_dim + 1]) % sz = 0)

\* the hand-coded opt on the tensor core's axis tc_dim, issued where exists
\* holds and a size divides the axis
ThenHandCoded(res, op, tc_dim, sizes, exists) ==
  IF res.err # "" \/ ~exists THEN res
  ELSE IF FollowSize(res, tc_dim, sizes) = <<>> THEN res
  ELSE ThenOpt(res, Opt(op, res.heap[res.k.tensor_core_opts].axes[tc_dim + 1],
                        <<FollowSize(res, tc_dim, sizes)[1]>>))

\* axes_exist[tc_dim] of the tensor_core_opts of what res left
AxisExists(res, tc_dim) ==
  res.err = "" /\ res.heap[res.k.tensor_core_opts].axes_exist[tc_dim + 1]

\* apply_tensor_cores(a) returned r where the opts it issues, one after the
\* other, end in last: no exception, true exactly when none of them failed,
\* and then the kernel is the one they left
ReturnsAfter(r, last) ==
  /\ r.err = ""
  /\ r.ret = (last.err = "")
  /\ r.ret => (r.k = last.k /\ r.heap = last.heap)

\* C14: apply_tensor_cores lets no KernelOptError out; it returns false when
\* the TC opt fails, when one of the extra opts fails and when one of the
\* hand-coded UPCAST and LOCAL opts fails; it returns true only when the TC opt
\* was applied (it heads applied_opts) and every opt issued after it succeeded.
C14_ErrorsBecomeFalse ==
  ncalls < MaxCalls =>
    \A a \in TCArgs :
      \A r \in {CallTC(a)} : \A t \in {CallK(TCOptOf(a), TRUE)} :
        /\ r.err # "KernelOptError"
        /\ r.ret => (t.err = "" /\ r.k.tensor_core # 0 /\ r.k.applied_opts[1] = TCOptOf(a))
        /\ IF t.err # "" THEN ~r.ret /\ r.k = t.k
           ELSE IF a.extra_opts.given
           THEN \A e \in {ThenOpts(t, a.extra_opts.opts)} : ReturnsAfter(r, e)
           ELSE IF a.amx # 0 THEN ReturnsAfter(r, t)
           ELSE \A m \in {ThenHandCoded(t, "UPCAST", 1, <<5, 4, 3, 2>>, AxisExists(t, 1))} :
                \A n \in {ThenHandCoded(m, "UPCAST", 0, <<5, 4, 3, 2>>, AxisExists(t, 0))} :
                \A l \in {ThenHandCoded(n, "LOCAL", 0, <<4, 2>>, AxisExists(n, 0))} :
                  ReturnsAfter(r, l)

\* from this kernel one call of apply_tensor_cores fails at its TC opt, one
\* applies the TC opt and fails at an extra opt, one applies the TC opt and
\* fails at a hand-coded opt, and one succeeds with follow-up opts
C14_Witness ==
  /\ ncalls < MaxCalls
  /\ \E a \in TCArgs : CallK(TCOptOf(a), TRUE).err = "KernelOptError" /\ ~CallTC(a).ret
  /\ \E a \in TCArgs : /\ a.extra_opts.given
                       /\ CallK(TCOptOf(a), TRUE).err = ""
                       /\ ~CallTC(a).ret
  /\ \E a \in TCArgs : /\ ~a.extra_opts.given
                       /\ CallK(TCOptOf(a), TRUE).err = ""
                       /\ ~CallTC(a).ret
  /\ \E a \in TCArgs : CallTC(a).ret /\ Len(CallTC(a).k.applied_opts) > 1

\* k.apply_tensor_cores(a) under the setting USE_TC = use_tc
CallTCUnder(a, use_tc) ==
  apply_tensor_cores(k, heap, [Asts[cfg] EXCEPT !.USE_TC = use_tc], {k2.tensor_core_opts},
                     a.amx, a.use_tensor_cores, a.extra_opts, a.axis, a.tc_select, a.tc_opt)

\* C15 as stated: the tensor-core mode that takes effect is the argument
\* use_tensor_cores of apply_tensor_cores, whatever the setting USE_TC: with
\* use_tensor_cores=0 the call returns false and leaves the kernel as it was,
\* and a call that succeeds with use_tensor_cores=u in {1, 2, 3} leaves the
\* kernel with use_tensor_cores = u.
C15_ModeIsArgument ==
  ncalls < MaxCalls =>
    \A a \in TCArgs, use_tc \in {0, 1, 2, 3} :
      \A r \in {CallTCUnder(a, use_tc)} :
        /\ a.use_tensor_cores = 0 => (~r.ret /\ r.k = k /\ r.heap = heap)
        /\ (r.ret /\ a.use_tensor_cores \in {1, 2, 3}) =>
             r.k.use_tensor_cores = a.use_tensor_cores

\* the opts that need locals among those the actions issue, and LOCAL(0, 4)
LocalOpts ==
  {o \in Opts : o.op \in {"LOCAL", "GROUP", "GROUPTOP"}} \cup {Opt("LOCAL", 0, <<4>>)}

\* k.apply_opt(NOLOCALS) on a renderer whose has_local is has_local
CallNoLocals(has_local) ==
  apply_opt(k, heap, [Asts[cfg] EXCEPT !.opts.has_local = has_local], {k2.tensor_core_opts},
            Opt("NOLOCALS", NoAxis, <<>>), TRUE)

\* C16: once NOLOCALS has succeeded every LOCAL, GROUP and GROUPTOP opt
\* (LOCAL(0, 4) among them) and every further NOLOCALS raises KernelOptError
\* and leaves dont_use_locals true, local_dims 0 and group_for_reduces 0; and
\* NOLOCALS succeeds exactly when the renderer has_local, locals are still in
\* use, and local_dims and group_for_reduces are 0.
C16_NoLocalsIsFinal ==
  ncalls < MaxCalls =>
    /\ k.dont_use_locals =>
         \A opt \in LocalOpts \cup {Opt("NOLOCALS", NoAxis, <<>>)}, append_opt \in BOOLEAN :
           \A r \in {CallK(opt, append_opt)} :
             /\ r.err = "KernelOptError"
             /\ r.k.dont_use_locals /\ r.k.local_dims = 0 /\ r.k.group_for_reduces = 0
    /\ \A has_local \in {hl \in BOOLEAN : hl \/ (k.local_dims = 0 /\ k.tensor_core = 0)} :
         \A r \in {CallNoLocals(has_local)} :
           /\ (r.err = "") = (/\ has_local /\ ~k.dont_use_locals
                              /\ k.local_dims = 0 /\ k.group_for_reduces = 0)
           /\ r.err # "" => (r.err = "KernelOptError" /\ r.k = k)
           /\ r.err = "" => r.k.dont_use_locals

\* NOLOCALS was applied, and the opts that need locals are tried on the
\* kernel it left
C16_Witness ==
  /\ ncalls = 1 /\ ncalls < MaxCalls
  /\ k.dont_use_locals
  /\ k.applied_opts = <<Opt("NOLOCALS", NoAxis, <<>>)>>
  /\ \E o \in LocalOpts : o.op = "GROUP"

\* the sequence s with its entries at the 0-based positions a and b exchanged
Exchanged(s, a, b) ==
  [i \in 1..Len(s) |-> IF i - 1 = a THEN s[b + 1] ELSE IF i - 1 = b THEN s[a + 1] ELSE s[i]]

\* the tracker st with its axes a and b exchanged
ExchangedSt(st, a, b) ==
  [shape |-> Exchanged(st.shape, a, b), strides |-> Exchanged(st.strides, a, b),
   mask |-> Exchanged(st.mask, a, b)]

\* the counters of a kernel
Counters(kk) == <<kk.upcasted, kk.local_dims, kk.group_for_reduces>>

\* C17: SWAP(axis, amt) raises KernelOptError (and changes nothing) unless
\* axis < amt < global_dims; a SWAP that succeeds exchanges the axes axis and
\* amt in every shape tracker and changes no counter, and the same SWAP
\* applied once more succeeds and brings sts and the counters back.
C17_SwapIsInvolution ==
  \A c \in Calls : c[1].op = "SWAP" =>
    \A r \in {CallK(c[1], c[2])} :
      /\ ~(c[1].axis < c[1].arg[1] /\ c[1].arg[1] < global_dims(k)) =>
           (r.err = "KernelOptError" /\ r.k = k)
      /\ r.err = "" =>
           /\ Len(r.k.sts) = Len(k.sts)
           /\ \A j \in 1..Len(k.sts) :
                r.k.sts[j] = ExchangedSt(k.sts[j], c[1].axis, c[1].arg[1])
           /\ Counters(r.k) = Counters(k)
           /\ \A u \in {apply_opt(r.k, r.heap, Asts[cfg], {k2.tensor_core_opts}, c[1], c[2])} :
                u.err = "" /\ u.k.sts = k.sts /\ Counters(u.k) = Counters(k)

\* a SWAP was applied to a kernel with a counter set, and it changed the
\* trackers
C17_Witness ==
  /\ ncalls = 2
  /\ Len(k.applied_opts) = 2
  /\ k.applied_opts[2].op = "SWAP"
  /\ Counters(k) # <<0, 0, 0>>
  /\ \E j \in 1..Len(k.sts) :
       k.sts[j] # ExchangedSt(k.sts[j], k.applied_opts[2].axis, k.applied_opts[2].arg[1])

\* the kernel as apply_opt(opt, append_opt) has it when it calls
\* simplify_ones: [k, err], err set when apply_opt raises before that call
\* (a TC opt makes its calls of simplify_ones inside the opts it plans)
BeforeSimplify(opt, append_opt) ==
  LET axis == real_axis(k, opt)
      a    == opt_amt(k, opt, real_axis(k, opt))
  IN IF opt.op = "TC" THEN KRes(k, "KernelOptError")
     ELSE IF k.dont_use_locals /\ opt.op \in {"LOCAL", "GROUP", "GROUPTOP"}
     THEN KRes(k, "KernelOptError")
     ELSE IF ~(axis < Len(full_shape(k))) THEN KRes(k, "KernelOptError")
     ELSE IF ~a.ok THEN KRes(k, "KernelOptError")
     ELSE IF smem_checked(k, Asts[cfg], opt) /\ ~(smem_sz(k, Asts[cfg], a.amt) <= Asts[cfg].opts.shared_max)
     THEN KRes(k, "KernelOptError")
     ELSE \* the opt's branch, then the append
       LET appended(d) ==
             IF d.err # "" \/ ~append_opt THEN d
             ELSE KRes([d.k EXCEPT !.applied_opts = Append(@, opt)], "")
       IN appended(opt_dispatch(k, Asts[cfg], opt, axis, a.amt))

\* a second call of simplify_ones after the call that left first returns false
\* and changes nothing
SecondCallIdle(first) ==
  first.err = "" =>
    \A second \in {simplify_ones(first.k)} :
      /\ second.err = ""
      /\ ~second.ret
      /\ second.k.sts = first.k.sts
      /\ second.k.local_dims = first.k.local_dims
      /\ second.k.upcasted = first.k.upcasted
      /\ second.k = first.k

\* C18: simplify_ones is idempotent: on the kernel every apply_opt hands to
\* it (size-1 axes among the local and upcasted axes included) and on every
\* kernel an opt has left, a second call right after the first returns false
\* and leaves sts, local_dims and upcasted as the first call left them.
C18_SimplifyOnesIdempotent ==
  /\ SecondCallIdle(simplify_ones(k))
  /\ \A c \in Calls :
       \A d \in {BeforeSimplify(c[1], c[2])} :
         d.err = "" => SecondCallIdle(simplify_ones(d.k))

\* after a first opt that set a counter, an opt is about to hand
\* simplify_ones a kernel with a size-1 axis among its local axes (the call
\* decrements local_dims), and another opt one with a size-1 global axis
C18_Witness ==
  /\ ncalls = 1
  /\ Counters(k) # <<0, 0, 0>>
  /\ \E c \in Calls : \E d \in {BeforeSimplify(c[1], c[2])} : \E s1 \in {simplify_ones(d.k)} :
       d.err = "" /\ s1.ret /\ s1.k.local_dims < d.k.local_dims
  /\ \E c \in Calls : \E d \in {BeforeSimplify(c[1], c[2])} : \E s1 \in {simplify_ones(d.k)} :
       d.err = "" /\ s1.ret /\ Counters(s1.k) = Counters(d.k)

\* the kernel's AST with the reduce op of kind `kind` and can_pad answering
\* can_pad (the AST itself where it has no reduce op)
AstWith(kind, can_pad) ==
  IF Asts[cfg].reduceops = <<>> THEN Asts[cfg]
  ELSE [Asts[cfg] EXCEPT !.reduceops[1].kind = kind, !.can_pad = can_pad]

\* the reduce ops and answers of can_pad tried in the current state: every
\* one on a kernel no opt has padded and no tensor core was applied to (those
\* opts depend on them), else the kernel's own
PadCases ==
  IF Asts[cfg].reduceops = <<>> \/ Masked(k) \/ k.tensor_core # 0
  THEN {<<IF Asts[cfg].reduceops = <<>> THEN "ADD" ELSE Asts[cfg].reduceops[1].kind,
          Asts[cfg].can_pad>>}
  ELSE {"ADD", "MAX"} \X BOOLEAN

\* k.apply_opt(opt, append_opt) with the reduce op and can_pad of pc
CallPad(opt, append_opt, pc) ==
  apply_opt(k, heap, AstWith(pc[1], pc[2]), {k2.tensor_core_opts}, opt, append_opt)

\* C20: a PADTO on an axis of the reduce segment of a kernel with a reduce op
\* succeeds only when the reduce op is ADD and can_pad holds; with another
\* reduce op or can_pad false it raises KernelOptError and pads nothing; a
\* PADTO on a non-reduce axis has the same outcome whatever the reduce op and
\* can_pad are.
C20_PadReduceNeedsAdd ==
  \A c \in Calls : c[1].op = "PADTO" =>
    \A pc \in PadCases :
      \A r \in {CallPad(c[1], c[2], pc)} :
        IF Asts[cfg].reduceops # <<>> /\ first_reduce(k) <= c[1].axis
           /\ c[1].axis < first_upcast(k)
        THEN /\ r.err = "" => (pc[1] = "ADD" /\ pc[2])
             /\ ~(pc[1] = "ADD" /\ pc[2]) => (r.err = "KernelOptError" /\ r.k = k)
        ELSE \A pd \in PadCases : CallPad(c[1], c[2], pd) = r

\* a PADTO of a non-reduce axis was applied, and on the kernel it left a PADTO
\* of a reduce axis succeeds and a PADTO of a non-reduce axis succeeds
C20_Witness ==
  /\ ncalls = 1
  /\ Masked(k)
  /\ k.applied_opts # <<>> /\ k.applied_opts[1].op = "PADTO"
  /\ \E c \in Calls : /\ c[1].op = "PADTO" /\ first_reduce(k) <= c[1].axis
                      /\ c[1].axis < first_upcast(k)
                      /\ CallK(c[1], c[2]).err = ""
  /\ \E c \in Calls : /\ c[1].op = "PADTO" /\ c[1].axis < first_reduce(k)
                      /\ CallK(c[1], c[2]).err = ""

\* the product of the sizes of shape before axis n
ProdBefore(shape, n) == prod(PySlice(shape, 0, n))

SizesOn(kk, axis) ==
  {Ix(kk.sts[j].shape, axis) : j \in 1..Len(kk.sts)} \ {1}

\* C21: a PADTO(axis, amt) that succeeds sets, in every tracker whose size s
\* on the axis is above 1, that size to the least multiple of amt that is
\* >= s, and leaves the sizes of 1, every other axis and the counters as they
\* were; PADTO raises KernelOptError when axis >= first_upcast, when the
\* kernel has symbolic variables, when a tracker has 1 < s <= amt/4 and when
\* every s above 1 is a multiple of amt already.
C21_PadtoRoundsUp ==
  LET LeastMultiple(m, s, amt) == m % amt = 0 /\ m >= s /\ m - amt < s IN
  \A c \in Calls : c[1].op = "PADTO" =>
    \A r \in {CallK(c[1], c[2])} :
      /\ r.err = "" =>
           /\ Len(r.k.sts) = Len(k.sts)
           /\ Counters(r.k) = Counters(k)
           /\ \A j \in 1..Len(k.sts) :
                /\ Len(r.k.sts[j].shape) = Len(k.sts[j].shape)
                /\ \A a \in 1..Len(k.sts[j].shape) :
                     IF a - 1 = c[1].axis /\ k.sts[j].shape[a] > 1
                     THEN LeastMultiple(r.k.sts[j].shape[a], k.sts[j].shape[a], c[1].arg[1])
                     ELSE r.k.sts[j].shape[a] = k.sts[j].shape[a]
      /\ c[1].axis >= first_upcast(k) => r.err = "KernelOptError"
      /\ apply_opt(k, heap, [Asts[cfg] EXCEPT !.vars = TRUE], {k2.tensor_core_opts},
                   c[1], c[2]).err = "KernelOptError"
      /\ c[1].axis < shape_len(k) =>
           /\ (\E s \in SizesOn(k, c[1].axis) : 4 * s <= c[1].arg[1]) => r.err = "KernelOptError"
           /\ (\A s \in SizesOn(k, c[1].axis) : s % c[1].arg[1] = 0) => r.err = "KernelOptError"

\* an opt has set a counter; on the kernel it left one PADTO succeeds and
\* changes a size, one is refused for an upcasted axis, one for a size of at
\* most amt/4 and one because the size is a multiple of amt already
C21_Witness ==
  /\ ncalls = 1
  /\ k.upcasted > 0
  /\ \E c \in Calls : /\ c[1].op = "PADTO" /\ CallK(c[1], c[2]).err = ""
                      /\ CallK(c[1], c[2]).k.sts # k.sts
  /\ \E c \in Calls : /\ c[1].op = "PADTO" /\ c[1].axis >= first_upcast(k)
                      /\ c[1].axis < shape_len(k)
  /\ \E c \in Calls : /\ c[1].op = "PADTO" /\ c[1].axis < first_upcast(k)
                      /\ \E s \in SizesOn(k, c[1].axis) : 4 * s <= c[1].arg[1]
  /\ \E c \in Calls : /\ c[1].op = "PADTO" /\ c[1].axis < first_upcast(k)
                      /\ \A s \in SizesOn(k, c[1].axis) : s % c[1].arg[1] = 0

\* the amount of an opt on the current kernel: its argument, the whole size of
\* the axis for an argument of 0
AmtOf(opt) == IF opt.arg[1] # 0 THEN opt.arg[1] ELSE Ix(full_shape(k), opt.axis)

\* k.apply_opt(opt, append_opt) on a renderer of device `device`
CallOn(device, opt, append_opt) ==
  apply_opt(k, heap, [Asts[cfg] EXCEPT !.opts.device = device], {k2.tensor_core_opts},
            opt, append_opt)

\* the axis is one of the local axes of the tensor core applied
IsTCLocal(axis) ==
  /\ k.tensor_core # 0
  /\ global_dims(k) <= axis
  /\ axis < global_dims(k) + Len(get_local_axes(Asts[cfg].opts.tensor_cores[k.tensor_core]))

\* C22: UPCAST(axis, amt) raises KernelOptError unless axis < first_reduce,
\* the axis is no local axis of the tensor core, amt <= 16 (any amt on device
\* "DSP") and full_shape[axis] % amt == 0 or full_shape[axis] == 1; when it
\* succeeds upcasted is one more, the size of the axis is divided by amt (the
\* axis is gone when amt is its whole size), every tracker that had the axis
\* has a new last axis of size amt, and local_dims is one less when a local
\* axis was used up and unchanged otherwise.
C22_UpcastContract ==
  \A c \in Calls : c[1].op = "UPCAST" =>
    \A r \in {CallK(c[1], c[2])} :
      /\ c[1].axis >= first_reduce(k) => r.err = "KernelOptError"
      /\ IsTCLocal(c[1].axis) => r.err = "KernelOptError"
      /\ c[1].axis < shape_len(k) =>
           \A amt \in {AmtOf(c[1])}, fs \in {Ix(full_shape(k), c[1].axis)} :
             /\ (amt > 16 /\ Asts[cfg].opts.device # "DSP") => r.err = "KernelOptError"
             /\ ~(fs % amt = 0 \/ fs = 1) => r.err = "KernelOptError"
             /\ (amt > 16 /\ c[1].axis < first_reduce(k) /\ k.group_for_reduces = 0) =>
                  CallOn("DSP", c[1], c[2]).err = ""
             /\ r.err = "" =>
                  /\ r.k.upcasted = k.upcasted + 1
                  /\ r.k.local_dims =
                       IF fs = amt /\ global_dims(k) <= c[1].axis
                       THEN k.local_dims - 1 ELSE k.local_dims
                  /\ Len(r.k.sts) = Len(k.sts)
                  /\ \A j \in 1..Len(k.sts) : \A s \in {Ix(k.sts[j].shape, c[1].axis)} :
                       r.k.sts[j].shape =
                         PySlice(k.sts[j].shape, 0, c[1].axis)
                           \o (IF fs = amt THEN <<>> ELSE <<IF s > 1 THEN s \div amt ELSE 1>>)
                           \o PySlice(k.sts[j].shape, c[1].axis + 1, shape_len(k))
                           \o <<IF s > 1 THEN amt ELSE 1>>

\* a LOCAL has made the whole of the second axis of the 32 x 2 kernel local:
\* the UPCAST of the whole first axis (amt 32) is refused and allowed on a DSP,
\* the UPCAST of the first axis by 2 divides it, the UPCAST of the whole local
\* axis uses it up
C22_Witness ==
  /\ ncalls = 1
  /\ full_shape(k) = <<32, 2>> /\ k.local_dims = 1
  /\ CallK(Opt("UPCAST", 0, <<0>>), TRUE).err = "KernelOptError"
  /\ CallOn("DSP", Opt("UPCAST", 0, <<0>>), TRUE).err = ""
  /\ full_shape(CallK(Opt("UPCAST", 0, <<2>>), TRUE).k) = <<16, 2, 2>>
  /\ CallK(Opt("UPCAST", 1, <<0>>), TRUE).k.local_dims = 0

\* C23: LOCAL(axis, amt) raises KernelOptError unless the renderer has_local
\* and axis < global_dims; when it succeeds local_dims is one more, the size
\* of the axis is divided by amt, the new axis of size amt is the last local
\* axis (index first_reduce - 1 of the kernel the opt leaves), and
\* global_dims is what it was, or one less when amt is the whole size of the
\* axis.
C23_LocalContract ==
  \A c \in Calls : c[1].op = "LOCAL" =>
    \A r \in {CallK(c[1], c[2])} :
      /\ c[1].axis >= global_dims(k) => r.err = "KernelOptError"
      /\ apply_opt(k, heap, [Asts[cfg] EXCEPT !.opts.has_local = FALSE],
                   {k2.tensor_core_opts}, c[1], c[2]).err = "KernelOptError"
      /\ r.err = "" =>
           \A amt \in {AmtOf(c[1])}, fs \in {Ix(full_shape(k), c[1].axis)} :
             /\ r.k.local_dims = k.local_dims + 1
             /\ global_dims(r.k) = IF fs = amt THEN global_dims(k) - 1 ELSE global_dims(k)
             /\ first_reduce(r.k) = IF fs = amt THEN first_reduce(k) ELSE first_reduce(k) + 1
             /\ Ix(full_shape(r.k), first_reduce(r.k) - 1) = amt
             /\ Len(r.k.sts) = Len(k.sts)
             /\ \A j \in 1..Len(k.sts) : \A s \in {Ix(k.sts[j].shape, c[1].axis)} :
                  r.k.sts[j].shape =
                    PySlice(k.sts[j].shape, 0, c[1].axis)
                      \o (IF fs = amt THEN <<>> ELSE <<IF s > 1 THEN s \div amt ELSE 1>>)
                      \o PySlice(k.sts[j].shape, c[1].axis + 1, first_reduce(k))
                      \o <<IF s > 1 THEN amt ELSE 1>>
                      \o PySlice(k.sts[j].shape, first_reduce(k), shape_len(k))

\* a LOCAL was applied to a kernel with a reduce axis; on the kernel it left
\* one LOCAL uses up a whole global axis, one divides a global axis and one is
\* refused because its axis is a local axis
C23_Witness ==
  /\ ncalls = 1
  /\ k.applied_opts # <<>> /\ k.applied_opts[1].op = "LOCAL"
  /\ k.local_dims = 1 /\ first_reduce(k) < shape_len(k)
  /\ \E c \in Calls : /\ c[1].op = "LOCAL" /\ CallK(c[1], c[2]).err = ""
                      /\ global_dims(CallK(c[1], c[2]).k) = global_dims(k) - 1
  /\ \E c \in Calls : /\ c[1].op = "LOCAL" /\ CallK(c[1], c[2]).err = ""
                      /\ global_dims(CallK(c[1], c[2]).k) = global_dims(k)
  /\ \E c \in Calls : /\ c[1].op = "LOCAL" /\ c[1].axis >= global_dims(k)
                      /\ c[1].axis < first_reduce(k)

\* C24: GROUP/GROUPTOP(axis, amt) raises KernelOptError unless has_local and
\* has_shared hold, the true axis a = first_reduce + group_for_reduces + axis
\* is below first_upcast, no tensor core is set and no two reduce ops share
\* an axis; when it succeeds group_for_reduces is one more and the new axis of
\* size amt sits at the old index first_reduce + group_for_reduces; GROUP
\* moves the inner factor of the split (n/amt, amt), which keeps the stride
\* of the axis, GROUPTOP the outer factor of (amt, n/amt), whose stride is
\* n/amt times that of the axis.
C24_GroupContract ==
  \A c \in Calls : c[1].op \in {"GROUP", "GROUPTOP"} =>
    \A r \in {CallK(c[1], c[2])}, g \in {first_reduce(k) + k.group_for_reduces},
       rs \in {Asts[cfg].reduceops} :
      /\ g + c[1].axis >= first_upcast(k) => r.err = "KernelOptError"
      /\ k.tensor_core # 0 => r.err = "KernelOptError"
      /\ (\E i, j \in 1..Len(rs) : i # j /\ \E x \in 1..Len(rs[i].axis_arg) :
            \E y \in 1..Len(rs[j].axis_arg) : rs[i].axis_arg[x] = rs[j].axis_arg[y])
           => r.err = "KernelOptError"
      /\ apply_opt(k, heap, [Asts[cfg] EXCEPT !.opts.has_local = FALSE],
                   {k2.tensor_core_opts}, c[1], c[2]).err = "KernelOptError"
      /\ apply_opt(k, heap, [Asts[cfg] EXCEPT !.opts.has_shared = FALSE],
                   {k2.tensor_core_opts}, c[1], c[2]).err = "KernelOptError"
      /\ r.err = "" =>
           \A a \in {g + c[1].axis} : \A n \in {Ix(full_shape(k), a)} :
           \A amt \in {IF c[1].arg[1] # 0 THEN c[1].arg[1] ELSE n} :
             /\ r.k.group_for_reduces = k.group_for_reduces + 1
             /\ Ix(full_shape(r.k), g) = amt
             /\ Len(r.k.sts) = Len(k.sts)
             /\ \A j \in 1..Len(k.sts) : \A s \in {Ix(k.sts[j].shape, a)} :
                  /\ r.k.sts[j].shape =
                       PySlice(k.sts[j].shape, 0, g)
                         \o <<IF s > 1 THEN amt ELSE 1>>
                         \o PySlice(k.sts[j].shape, g, a)
                         \o (IF n = amt THEN <<>> ELSE <<IF s > 1 THEN n \div amt ELSE 1>>)
                         \o PySlice(k.sts[j].shape, a + 1, shape_len(k))
                  /\ s > 1 =>
                       Ix(r.k.sts[j].strides, g) =
                         IF c[1].op = "GROUP" THEN Ix(k.sts[j].strides, a)
                         ELSE Ix(k.sts[j].strides, a) * (n \div amt)

\* a GROUPTOP has split the reduce axis of a kernel and left other trackers
\* than the GROUP of the same axis and amount leaves; on the kernel it left a
\* GROUP of the rest of the axis succeeds and a GROUP of an axis past the
\* reduce axes is refused
C24_Witness ==
  /\ ncalls = 1
  /\ k.applied_opts = <<Opt("GROUPTOP", 0, <<2>>)>>
  /\ k.group_for_reduces = 1
  /\ \A o \in {apply_opt(KernelInit(Asts[cfg]), EmptyHeap, Asts[cfg], {}, Opt("GROUP", 0, <<2>>), TRUE)} :
       o.err = "" /\ o.k.sts # k.sts /\ o.k.group_for_reduces = 1
  /\ CallK(Opt("GROUP", 0, <<2>>), TRUE).err = ""
  /\ CallK(Opt("GROUP", 0, <<2>>), TRUE).k.group_for_reduces = 2
  /\ CallK(Opt("GROUP", 1, <<2>>), TRUE).err = "KernelOptError"

\* the shared memory a GROUP or GROUPTOP opt asks of the current kernel: amt
\* times the item size of the accumulator, the sizes of the upcasted axes
\* that are no reduce axes and the sizes of the local and grouped axes (the
\* opt names a reduce axis of a kernel with a reduce op)
SharedNeeded(opt) ==
  LET a    == first_reduce(k) + k.group_for_reduces + opt.axis
      amt  == IF opt.arg[1] # 0 THEN opt.arg[1] ELSE Ix(full_shape(k), a)
      ups  == {i \in first_upcast(k)..(shape_len(k) - 1) :
                 Ix(full_shape(k), i) = Ix(output_shape(k), i)}
      locs == (first_reduce(k) - k.local_dims)..(first_reduce(k) + k.group_for_reduces - 1)
      size[S \in SUBSET (0..(shape_len(k) - 1))] ==
        IF S = {} THEN 1
        ELSE LET i == CHOOSE i \in S : TRUE IN Ix(full_shape(k), i) * size[S \ {i}]
  IN amt * Asts[cfg].reduceops[1].itemsize * size[ups] * size[locs]

\* C25: a GROUP or GROUPTOP opt that asks for more shared memory than
\* shared_max raises KernelOptError and leaves the kernel as it was; one that
\* asks for at most shared_max has the outcome it has on a renderer with
\* shared memory to spare.
C25_SharedBudget ==
  \A c \in Calls :
    (/\ c[1].op \in {"GROUP", "GROUPTOP"}
     /\ Asts[cfg].reduceops # <<>>
     /\ first_reduce(k) + k.group_for_reduces + c[1].axis < shape_len(k)) =>
      \A r \in {CallK(c[1], c[2])}, need \in {SharedNeeded(c[1])} :
        IF need > Asts[cfg].opts.shared_max
        THEN r.err = "KernelOptError" /\ r.k = k /\ r.heap = heap
        ELSE r = apply_opt(k, heap,
                           [Asts[cfg] EXCEPT !.opts.shared_max = @ + need],
                           {k2.tensor_core_opts}, c[1], c[2])

\* a LOCAL has made a whole axis local; on the kernel it left one GROUP is
\* refused for its shared memory alone (a renderer with more accepts it) and
\* a smaller GROUP is within the budget and succeeds
C25_Witness ==
  /\ ncalls = 1
  /\ k.local_dims = 1 /\ Asts[cfg].reduceops # <<>>
  /\ first_reduce(k) < shape_len(k)
  /\ \E c \in Calls :
       /\ c[1].op = "GROUP" /\ c[1].axis = 0
       /\ SharedNeeded(c[1]) > Asts[cfg].opts.shared_max
       /\ apply_opt(k, heap, [Asts[cfg] EXCEPT !.opts.shared_max = @ + SharedNeeded(c[1])],
                    {k2.tensor_core_opts}, c[1], c[2]).err = ""
  /\ \E c \in Calls :
       /\ c[1].op = "GROUP" /\ c[1].axis = 0
       /\ SharedNeeded(c[1]) <= Asts[cfg].opts.shared_max
       /\ CallK(c[1], c[2]).err = ""

\* the hand-coded optimizations were run on the kernel of this kind and shape
HandRanOn(kind, shape) == ncalls = 1 /\ cfg.kind = kind /\ cfg.shape = shape

\* the shared memory the three opts of the matvec branch need: a float for
\* each of the grouped, local and upcasted elements
MatvecSmem == MV_THREADS_PER_ROW * MV_BLOCKSIZE * MV_ROWS_PER_THREAD * 4

ShapesOf(kk) == [i \in 1..Len(kk.sts) |-> kk.sts[i].shape]

C28_NeverPropagates == driven # "KernelOptError"

\* C29: get_optimized_ast leaves the kernel as it was; the SINK of the graph
\* it returns carries the kernel's current local_dims, upcasted and
\* dont_use_locals; and a second call on the state the first left returns the
\* same record, with or without a name override
C29_AstKeepsKernel ==
  \A name_override \in NameOverrides :
    \A r \in {get_optimized_ast(k, Asts[cfg], outputs, name_override)} :
      /\ r.k = k
      /\ r.sink.local_dims = k.local_dims
      /\ r.sink.upcasted = k.upcasted
      /\ r.sink.dont_use_locals = k.dont_use_locals
      /\ get_optimized_ast(r.k, Asts[cfg], r.outputs, name_override).k = k
      /\ get_optimized_ast(r.k, Asts[cfg], r.outputs, name_override).sink = r.sink

C29_Witness ==
  /\ ncalls >= 1
  /\ k.upcasted > 0
  /\ outputs.name # NoName
  /\ outputs.name.num = 1
  /\ outputs.sink = KernelInfo(outputs.name, k.local_dims, k.upcasted, k.dont_use_locals)
  /\ outputs.name.shape # full_shape(k)

\* the last element of a sequence
Last(s) == s[Len(s)]

\* C31: a successful UNROLL adds one to upcasted and leaves local_dims as it
\* was, also when it unrolls the whole of the first reduce axis, and the last
\* axis of the kernel it leaves is an unrolled reduce axis: full_shape and the
\* output's shape differ on it
C31_UnrollCounters ==
  \A c \in Calls : c[1].op = "UNROLL" =>
    \A r \in {CallK(c[1], c[2])} :
      r.err = "" =>
        /\ first_reduce(k) + c[1].axis < first_upcast(k)
        /\ (IF c[1].arg[1] # 0 THEN c[1].arg[1] ELSE Ix(full_shape(k), real_axis(k, c[1]))) <= 32
        /\ r.k.upcasted = k.upcasted + 1
        /\ r.k.local_dims = k.local_dims
        /\ Last(full_shape(r.k)) # Last(output_shape(r.k))

\* an UNROLL of the whole first reduce axis was applied to a kernel with a
\* local axis
C31_Witness ==
  /\ ncalls = 2 /\ Len(k.applied_opts) = 2
  /\ k.applied_opts[1].op = "LOCAL" /\ k.applied_opts[2].op = "UNROLL"
  /\ k.local_dims = 1 /\ k.upcasted = 1
  /\ first_reduce(k) = first_upcast(k)

\* the UNROLL calls that succeed from the current state: <<true axis, amt,
\* kernel they leave>>
Unrolls ==
  {<<real_axis(k, c[1]),
     IF c[1].arg[1] # 0 THEN c[1].arg[1] ELSE Ix(full_shape(k), real_axis(k, c[1])),
     CallK(c[1], c[2]).k>> :
     c \in {d \in Calls : d[1].op = "UNROLL" /\ CallK(d[1], d[2]).err = ""}}

\* C32 as stated: a successful UNROLL of an axis of the grouped segment takes
\* one from group_for_reduces, any other leaves it as it was
C32_UnrollUngroups ==
  \A u \in Unrolls :
    u[3].group_for_reduces =
      IF u[1] < first_reduce(k) + k.group_for_reduces
      THEN k.group_for_reduces - 1 ELSE k.group_for_reduces

\* C32: a successful UNROLL takes one from group_for_reduces exactly when its
\* axis lies in the grouped segment and amt is the whole size of the axis; an
\* UNROLL of a part of a grouped axis, and of any other axis, leaves
\* group_for_reduces as it was
C32_UnrollUngroupsWhole ==
  \A u \in Unrolls :
    u[3].group_for_reduces =
      IF u[1] < first_reduce(k) + k.group_for_reduces /\ Ix(full_shape(k), u[1]) = u[2]
      THEN k.group_for_reduces - 1 ELSE k.group_for_reduces

\* on a kernel with a grouped axis one UNROLL takes the whole of it and one a
\* part of it
C32_Witness ==
  /\ k.group_for_reduces = 1
  /\ \E u \in Unrolls : u[1] = first_reduce(k) /\ u[3].group_for_reduces = 0
  /\ \E u \in Unrolls : /\ u[1] = first_reduce(k) /\ u[2] < Ix(full_shape(k), u[1])
                         /\ u[3].group_for_reduces = 1

\* the opts that, applied to the kernel a tensor core was matched on, succeed
\* and have simplify_ones remove an axis: <<index of the removed axis, what
\* the call leaves>>
TCRemovals ==
  IF k.tensor_core = 0 THEN {}
  ELSE {<<CHOOSE i \in 0..shape_len(k) : Ix(full_shape(BeforeSimplify(c[1], c[2]).k), i) = 1,
          CallK(c[1], c[2])>> :
          c \in {d \in Calls : d[1].op # "TC" /\ CallK(d[1], d[2]).err = ""
                               /\ \E i \in 1..Len(full_shape(BeforeSimplify(d[1], d[2]).k)) :
                                    full_shape(BeforeSimplify(d[1], d[2]).k)[i] = 1}}

\* the sizes and strides of the trackers on an axis
Column(kk, axis) ==
  [j \in 1..Len(kk.sts) |-> <<Ix(kk.sts[j].shape, axis), Ix(kk.sts[j].strides, axis)>>]

\* C33 as stated: when an opt after a tensor-core match has an axis removed,
\* each of the three stored axes (N, M and K) above the removed index is
\* decremented, one equal to it is marked non-existent (N and M have the
\* mark) and one below it is unchanged
C33_StoredAxesFollow ==
  \A u \in TCRemovals :
    \A old \in {heap[k.tensor_core_opts]}, new \in {u[2].heap[k.tensor_core_opts]} :
      \A i \in 1..3 :
        /\ old.axes[i] > u[1] => new.axes[i] = old.axes[i] - 1
        /\ old.axes[i] < u[1] => new.axes[i] = old.axes[i]
        /\ (old.axes[i] = u[1] /\ i <= 2) => ~new.axes_exist[i]

\* C33: when an opt after a tensor-core match has an axis removed, each of
\* the N and M axes still marked existent is decremented when it is above
\* the removed index, marked non-existent when it is the removed index and
\* unchanged when below, and one that stays existent names the axis it named
\* before; an axis marked non-existent before, and the K axis, are not
\* adjusted
C33_ExistingAxesFollow ==
  \A u \in TCRemovals :
    \A old \in {heap[k.tensor_core_opts]}, new \in {u[2].heap[k.tensor_core_opts]} :
      /\ new.axes[3] = old.axes[3]
      /\ \A i \in 1..2 :
           IF ~old.axes_exist[i]
           THEN new.axes[i] = old.axes[i] /\ ~new.axes_exist[i]
           ELSE /\ new.axes_exist[i] = (old.axes[i] # u[1])
                /\ new.axes[i] = IF old.axes[i] > u[1] THEN old.axes[i] - 1 ELSE old.axes[i]
                /\ new.axes_exist[i] => Column(u[2].k, new.axes[i]) = Column(k, old.axes[i])

\* a tensor core was matched, and of the opts on the kernel it left one
\* removes an axis below the N or M axis, one removes the N or M axis itself
\* and one removes an axis below the stored K axis
C33_Witness ==
  /\ k.tensor_core # 0
  /\ \E u \in TCRemovals : \E i \in 1..2 :
       heap[k.tensor_core_opts].axes_exist[i] /\ heap[k.tensor_core_opts].axes[i] > u[1]
  /\ \E u \in TCRemovals : \E i \in 1..2 :
       heap[k.tensor_core_opts].axes_exist[i] /\ heap[k.tensor_core_opts].axes[i] = u[1]
  /\ \E u \in TCRemovals : heap[k.tensor_core_opts].axes[3] > u[1]

\* the axes of the input of a constructed kernel in the order the constructor
\* has to produce: the kept axes, then the reduced ones, each in the order of
\* the input and each with its size and its stride in the input buffer; the
\* axes of size 1 are dropped
InputAxes(c) ==
  LET st   == InTracker(c.shape, c.layout)
      axes == SelectSeq(<<0, 1, 2>>, LAMBDA a : a \notin c.red)
                \o SelectSeq(<<0, 1, 2>>, LAMBDA a : a \in c.red)
      kept == SelectSeq(axes, LAMBDA a : Ix(c.shape, a) > 1)
  IN [i \in 1..Len(kept) |-> <<Ix(st.shape, kept[i]), Ix(st.strides, kept[i]), kept[i] \in c.red>>]

\* the axes of the kernel as the input buffer sees them
KernelAxes(kk) ==
  [i \in 1..shape_len(kk) |->
     <<kk.sts[2].shape[i], kk.sts[2].strides[i], full_shape(kk)[i] # output_shape(kk)[i]>>]

\* f is e with runs of consecutive axes of one kind merged into one axis
RECURSIVE Coalesces(_, _)
Coalesces(f, e) ==
  IF f = <<>> THEN e = <<>>
  ELSE \E n \in 1..Len(e) :
         /\ f[1][1] = prod([i \in 1..n |-> e[i][1]])
         /\ f[1][2] = e[n][2]
         /\ \A i \in 1..n : e[i][3] = f[1][3]
         /\ Coalesces(Tail(f), SubSeq(e, n + 1, Len(e)))

\* C34: after construction the reduce axes of full_shape lie after all kept
\* axes, the kept axes and the reduce axes each keep the order of the input,
\* upcasted, local_dims and group_for_reduces are 0, applied_opts is empty,
\* no tensor core is set, dont_use_locals is false, and there is one tracker
\* per buffer plus two per reduce op
C34_Constructed ==
  ncalls = 2 =>
    /\ \A i, j \in 1..shape_len(k) :
         (full_shape(k)[i] # output_shape(k)[i] /\ full_shape(k)[j] = output_shape(k)[j]) => j < i
    /\ Coalesces(KernelAxes(k), InputAxes(cfg))
    /\ k.upcasted = 0 /\ k.local_dims = 0 /\ k.group_for_reduces = 0
    /\ k.applied_opts = <<>>
    /\ k.tensor_core = 0 /\ k.tensor_core_opts = 0
    /\ k.dont_use_locals = FALSE
    /\ Len(k.sts) = Len(BuildAst(cfg).bufs) + 2 * Len(BuildAst(cfg).reduceops)

C34_Witness ==
  /\ ncalls = 2
  /\ cfg.red = {0}
  /\ cfg.layout = "transposed"
  /\ shape_len(k) = 3
  /\ first_reduce(k) = 2

\* the axes of size 1 of a kernel
UnitAxes(kk) == {i \in 0..(shape_len(kk) - 1) : Ix(full_shape(kk), i) = 1}

\* 1 when the condition holds, 0 otherwise
Bit(b) == IF b THEN 1 ELSE 0

\* C35: after construction and after every successful apply_opt full_shape has
\* no axis of size 1: a split that takes the whole of an axis empties it and
\* the axis is removed in the same opt, and local_dims (upcasted) is then one
\* less than the opt alone makes it exactly when the emptied axis lay in the
\* local (upcast) segment
C35_NoUnitAxis ==
  /\ UnitAxes(k) = {}
  /\ \A c \in Calls :
       \A r \in {CallK(c[1], c[2])} :
         r.err = "" =>
           /\ UnitAxes(r.k) = {}
           /\ c[1].op # "TC" =>
                \A b \in {BeforeSimplify(c[1], c[2]).k} :
                  \A a \in {real_axis(k, c[1])} :
                    \A emptied \in {c[1].op \in {"UPCAST", "UNROLL", "LOCAL", "GROUP", "GROUPTOP"}
                                      /\ Ix(full_shape(k), a) = opt_amt(k, c[1], a).amt} :
                      /\ Cardinality(UnitAxes(b)) = Bit(emptied)
                      /\ shape_len(r.k) = shape_len(b) - Bit(emptied)
                      /\ r.k.local_dims = k.local_dims + Bit(c[1].op = "LOCAL")
                                            - Bit(emptied /\ global_dims(k) <= a /\ a < first_reduce(k))
                      /\ r.k.upcasted = k.upcasted + Bit(c[1].op \in {"UPCAST", "UNROLL"})
                                            - Bit(emptied /\ first_upcast(k) <= a)

C35_Witness ==
  /\ k.local_dims = 1
  /\ \E c \in Calls :
       /\ c[1].op = "UPCAST"
       /\ real_axis(k, c[1]) = global_dims(k)
       /\ UnitAxes(BeforeSimplify(c[1], c[2]).k) # {}
       /\ CallK(c[1], c[2]).err = ""
       /\ CallK(c[1], c[2]).k.local_dims = 0

\* the number of elements of every tracker of a kernel, the full shape first
Sizes(kk) == <<prod(full_shape(kk))>> \o [j \in 1..Len(kk.sts) |-> prod(kk.sts[j].shape)]

\* C36: a successful UPCAST, UNROLL, LOCAL, GROUP, GROUPTOP, SWAP or NOLOCALS
\* leaves the product of the sizes of full_shape and of every tracker's shape
\* unchanged; a successful PADTO makes the product of full_shape larger and
\* the product of no tracker smaller
C36_SizeKept ==
  \A c \in Calls : c[1].op # "TC" =>
    \A r \in {CallK(c[1], c[2])} :
      r.err = "" =>
        /\ Len(r.k.sts) = Len(k.sts)
        /\ c[1].op # "PADTO" => Sizes(r.k) = Sizes(k)
        /\ c[1].op = "PADTO" =>
             /\ Sizes(r.k)[1] > Sizes(k)[1]
             /\ \A j \in 1..Len(Sizes(k)) : Sizes(r.k)[j] >= Sizes(k)[j]

C36_Witness ==
  /\ k.upcasted = 1
  /\ \E c \in Calls :
       /\ c[1].op = "PADTO"
       /\ CallK(c[1], c[2]).err = ""
       /\ Sizes(CallK(c[1], c[2]).k)[1] > Sizes(k)[1]
       /\ Sizes(CallK(c[1], c[2]).k)[2] = Sizes(k)[2]
  /\ \E c \in Calls :
       /\ c[1].op = "UNROLL"
       /\ CallK(c[1], c[2]).err = ""
       /\ shape_len(CallK(c[1], c[2]).k) = shape_len(k)
       /\ full_shape(CallK(c[1], c[2]).k) # full_shape(k)

\* the number of elements of each segment of the shape of a kernel, as its
\* counters delimit them: global, local, grouped reduce, reduce, upcast (in
\* full_shape and in the output shape)
SegmentSizes(kk) ==
  <<prod(PySlice(full_shape(kk), 0, global_dims(kk))),
    prod(PySlice(full_shape(kk), global_dims(kk), first_reduce(kk))),
    prod(PySlice(full_shape(kk), first_reduce(kk), first_reduce(kk) + kk.group_for_reduces)),
    prod(PySlice(full_shape(kk), first_reduce(kk) + kk.group_for_reduces, first_upcast(kk))),
    prod(PySlice(full_shape(kk), first_upcast(kk), shape_len(kk))),
    prod(PySlice(output_shape(kk), first_upcast(kk), shape_len(kk)))>>

\* C37: simplify_merge_adjacent called on a kernel with local_dims > 0,
\* group_for_reduces > 0 or upcasted > 0 merges no two axes of different
\* segments: after the call first_reduce + group_for_reduces <= first_upcast
\* <= shape_len and every segment the counters delimit holds as many elements
\* as before
C37_MergeKeepsSegments ==
  (k.local_dims > 0 \/ k.group_for_reduces > 0 \/ k.upcasted > 0) =>
    \A m \in {simplify_merge_adjacent(k)} :
      /\ 0 <= global_dims(m)
      /\ first_reduce(m) + m.group_for_reduces <= first_upcast(m)
      /\ first_upcast(m) <= shape_len(m)
      /\ SegmentSizes(m) = SegmentSizes(k)

\* C38: whenever apply_tensor_cores returns false the kernel is as it was
\* before the call: applied_opts, tensor_core, tensor_core_opts, the trackers
\* and the counters are unchanged, whether the TC opt itself failed or an
\* extra or hand-coded opt issued after it
C38_FalseLeavesKernel ==
  ncalls < MaxCalls =>
    \A a \in TCArgs :
      \A r \in {CallTC(a)} :
        (r.err = "" /\ ~r.ret) => Deref(r.k, r.heap) = Deref(k, heap)

\* the kernel the scan of hand_coded_optimizations starts on: the fresh kernel
\* after the grouping attempt and the upcasts of the masked axes
ScanInput == masked_upcasts(try_grouptop(KernelInit(HandAst(cfg)), EmptyHeap, HandAst(cfg), grouptop_sizes(KernelInit(HandAst(cfg)), HandAst(cfg))), HandAst(cfg))

\* the scan is reached: no matvec, nothing grouped, no exception so far
ScanRuns ==
  /\ matvec_global_idx(KernelInit(HandAst(cfg)), HandAst(cfg)).err = ""
  /\ matvec_global_idx(KernelInit(HandAst(cfg)), HandAst(cfg)).idx = NoAxis
  /\ ScanInput.err = ""
  /\ ScanInput.k.group_for_reduces = 0

\* C39: the scan of hand_coded_optimizations for axes some buffer has stride 0
\* on ends: every iteration upcasts an axis before first_reduce that no
\* earlier iteration chose, so there are at most as many iterations as axes
\* before first_reduce, and every iteration but one that raises adds one
\* upcast axis
C39_ScanTerminates ==
  ScanRuns =>
    \A s \in {ScanInput} :
      \A axes \in {zero_stride_axes(s, HandAst(cfg), {})} :
        \A r \in {zero_stride_upcasts(s, HandAst(cfg), {})} :
          /\ Len(axes) <= first_reduce(s.k)
          /\ \A i \in 1..Len(axes) : 0 <= axes[i] /\ axes[i] < first_reduce(s.k)
          /\ \A i, j \in 1..Len(axes) : i < j => axes[i] # axes[j]
          /\ r.err = "" => r.k.upcasted = s.k.upcasted + Len(axes)
          /\ r.err # "" => r.k.upcasted = s.k.upcasted + Len(axes) - 1

C39_Witness ==
  /\ ncalls = 1
  /\ driven = ""
  /\ ScanRuns
  /\ first_reduce(ScanInput.k) = 2
  /\ Len(zero_stride_axes(ScanInput, HandAst(cfg), {})) = 2
  /\ k.upcasted >= 2

\* C40: on a kernel with a reduce op and group_for_reduces > 0 every SWAP with
\* axis < amt < global_dims succeeds, whatever shared_max is: the budget of
\* shared memory rejects no opt that only permutes axes
C40_SwapNeedsNoBudget ==
  (Asts[cfg].reduceops # <<>> /\ k.group_for_reduces > 0) =>
    \A c \in Calls :
      (c[1].op = "SWAP" /\ c[1].axis < c[1].arg[1] /\ c[1].arg[1] < global_dims(k)) =>
        CallK(c[1], c[2]).err = ""

====
